---- MODULE Spec2Model ----
(***************************************************************************)
(* A model of the Declaration Reordering Advisor of the intuita VS Code    *)
(* extension: the declaration extractor (2_factBuilder.ts), the            *)
(* coefficient model and solution search, the code-action provider and     *)
(* the job executor of the JobManager.                                     *)
(*                                                                         *)
(* Texts are sequences of one-character strings; offsets, indexes, lines   *)
(* and columns are 0-based as in the source, sequences are 1-based.        *)
(***************************************************************************)
EXTENDS Integers, Sequences, FiniteSets, TLC

VARIABLES
    pc,           \* position of the modelled run: "input" or the handler that ran
    fileName,     \* the file-name extension of the document: "ts", "java", "txt"
    fileText,     \* the document text
    fileLine,     \* the cursor line of the user command
    sourceFile,   \* what the parser makes of fileText: statements and end trivia
    fact,         \* result of buildMoveTopLevelNodeFact (NoValue before)
    nodes,        \* a candidate ordering of declarations
    weights,      \* the three coefficient weights of the configuration, each <<>> or <<w>>
    coefficient,  \* the coefficient triple of nodes (NoValue before)
    solutions,    \* the solution list of the fact (NoValue before)
    codeActions,  \* the result of provideCodeActions (NoValue before)
    characterDifference,  \* the offset of the cursor in its declaration
    job,          \* the job handed to executeJob
    jobOutput,    \* the result of executeJob (NoValue before)
    leftRightHashSet,  \* LeftRightHashSetManager._set, in insertion order
    storedPairs,  \* the <<left, right>> pairs upserted and not deleted since
    hashKinds,    \* the left and the right hashes the manager is used with
    fileNames,    \* JobManager._fileNames: file name hash -> file name
    factMap,      \* JobManager._factMap: job hash -> fact
    moveTopLevelBlockHashMap,  \* file name hash -> set of job hashes
    repairCodeHashMap,         \* file name hash -> set of job hashes
    rejectedJobHashes,         \* JobManager._rejectedJobHashes
    jobMap,       \* JobManager._jobMap: job hash -> job
    published,    \* the messages the last handler published on the message bus
    documents,    \* file name -> the text of its document and whether an editor shows it
    callbacks,    \* the edits that a command left to run after it
    event,        \* the last event handled and how its handler ended
    lastEventText, \* file name -> the text of its last file-text-changed event, if any
    handled,      \* the number of events and commands handled so far
    engine,       \* EngineService: #childProcess, the handlers under way, the processes
    nora,         \* NoraNodeEngineService.buildRepairCodeJobs: the stream and its handlers
    jobManager,   \* the JobManager of jobs by URI: #jobMap, the set of #uriHashJobHashSetManager
    persistence,  \* a job, its persisted form and the job mapped back from it
    diagnosticCollection,  \* the diagnostic collection: file name -> its diagnostics
    workspaceState,  \* WorkspaceState: the memento value of the recent codemod hashes
    treeView,     \* TreeView: executionStack, progress and the messages posted
    applySelected,  \* the store flag applySelectedInProgress and the invocations under way
    intuitaPanel  \* IntuitaPanel: __instance, the panels created, the instances returned

extractorVars == <<fileName, fileText, fileLine, sourceFile, fact>>
advisorVars == <<nodes, weights, coefficient, solutions, codeActions>>
jobVars == <<characterDifference, job, jobOutput>>

hashVars == <<leftRightHashSet, storedPairs, hashKinds>>

managerVars == <<fileNames, factMap, moveTopLevelBlockHashMap, repairCodeHashMap,
                 rejectedJobHashes, jobMap, published>>
editorVars == <<documents, callbacks, event, lastEventText, handled>>

\* the stores that outlive a run of the advisor
\* the services of the later extension
viewVars == <<diagnosticCollection, workspaceState, treeView, applySelected, intuitaPanel>>

serviceVars == <<engine, nora, jobManager, persistence, viewVars>>

storeVars == <<hashVars, managerVars, editorVars, serviceVars>>

vars == <<pc, extractorVars, advisorVars, jobVars, storeVars>>

(***************************************************************************)
(* Bounds of the model.                                                    *)
(***************************************************************************)
MaxStatements == 2
MaxNodes == 3

(***************************************************************************)
(* Values of the JavaScript run time.                                      *)
(***************************************************************************)
NoValue == "NoValue"
Null == "null"
NewLine == "\n"

Min(a, b) == IF a < b THEN a ELSE b
Max(a, b) == IF a > b THEN a ELSE b

\* String.prototype.slice(from, to) and Array.prototype.slice(from, to) for
\* 0 <= from: the elements at the 0-based offsets from .. to-1, clamped.
Slice(text, from, to) == SubSeq(text, from + 1, Min(to, Len(text)))

\* String.prototype.slice(from) and Array.prototype.slice(from)
SliceFrom(text, from) == SubSeq(text, from + 1, Len(text))

RECURSIVE Join(_)
\* Array.prototype.join('') of a list of texts
Join(texts) ==
    IF texts = <<>> THEN <<>> ELSE Head(texts) \o Join(Tail(texts))

RECURSIVE SplitLengths(_, _)
\* text.split(separator).map(({ length }) => length) for a one-character separator
SplitLengths(text, separator) ==
    IF \A i \in 1..Len(text) : text[i] # separator
    THEN <<Len(text)>>
    ELSE LET at == CHOOSE i \in 1..Len(text) :
                       /\ text[i] = separator
                       /\ \A k \in 1..(i - 1) : text[k] # separator
         IN <<at - 1>> \o SplitLengths(SubSeq(text, at + 1, Len(text)), separator)

RECURSIVE Sum(_)
Sum(numbers) == IF numbers = <<>> THEN 0 ELSE Head(numbers) + Sum(Tail(numbers))

\* the elements of a list as a set
Elements(list) == {list[i] : i \in 1..Len(list)}

\* the job manager and the editor as the activation of the extension finds them
ManagerIdle ==
    /\ fileNames = <<>>
    /\ factMap = <<>>
    /\ moveTopLevelBlockHashMap = <<>>
    /\ repairCodeHashMap = <<>>
    /\ rejectedJobHashes = {}
    /\ jobMap = <<>>
    /\ published = <<>>
    /\ documents = <<>>
    /\ callbacks = {}
    /\ event = [handler |-> "none", fileName |-> "", jobHash |-> <<>>, failed |-> FALSE]
    /\ lastEventText = <<>>
    /\ handled = 0

\* the services as their constructors leave them
EngineIdle ==
    engine = [childProcess |-> <<>>, handlers |-> {}, processes |-> {},
              received |-> 0]

NoraIdle ==
    nora = [input |-> <<>>, read |-> 0, closed |-> FALSE, awaiting |-> {},
            uriHashFileMap |-> {}, nextJsLinkJobs |-> <<>>, published |-> <<>>]

\* new JobManager([], [], messageBus, fileService)
JobManagerIdle ==
    jobManager = [jobMap |-> <<>>, uriHashJobHashSet |-> <<>>, accepting |-> {},
                  operations |-> {}, published |-> {}, handled |-> 0]

PersistenceIdle == persistence = [job |-> <<>>, persistedJob |-> <<>>, mapped |-> <<>>]

\* the views and the workspace state of the extension after its activation
ViewsIdle ==
    /\ diagnosticCollection = <<>>
    /\ workspaceState = [memento |-> <<>>, lastSet |-> <<>>, calls |-> 0]
    /\ treeView = [executionStack |-> <<>>, progress |-> <<>>, posted |-> <<>>,
                   running |-> <<>>, halts |-> 0, clicks |-> 0]
    /\ applySelected = [applySelectedInProgress |-> FALSE, executing |-> {},
                        invoked |-> 0]
    /\ intuitaPanel = [instance |-> <<>>, panels |-> {}, returned |-> <<>>]

ServicesIdle ==
    EngineIdle /\ NoraIdle /\ JobManagerIdle /\ PersistenceIdle /\ ViewsIdle

\* the stores as the constructors leave them
StoresEmpty ==
    /\ leftRightHashSet = <<>>
    /\ storedPairs = {}
    /\ hashKinds = [left |-> {}, right |-> {}]
    /\ ManagerIdle
    /\ ServicesIdle

(***************************************************************************)
(* The parsers (typescript, antlr4ts) as seen by the extractor.  A parsed  *)
(* file is a list of top-level statements followed by end-of-file trivia.  *)
(* A statement is                                                          *)
(*   kind             the native node kind                                 *)
(*   name             <<>> when node.name is undefined, else <<text>>      *)
(*   declarationNames the identifier names of a variable statement         *)
(*   identifierTokens every identifier leaf of the subtree, in order       *)
(*   hasStop          whether the parser set ctx.stop (Java)               *)
(*   trivia           the leading trivia (white space) before the node     *)
(*   width            the number of characters of the node itself          *)
(* Names are texts: "ab" is <<"a", "b">>.                                  *)
(***************************************************************************)
TsShapes ==
    { [kind |-> "ClassDeclaration", name |-> << <<"a">> >>, declarationNames |-> <<>>,
       identifierTokens |-> << <<"a">>, <<"b">> >>, hasStop |-> TRUE],
      [kind |-> "ClassDeclaration", name |-> <<>>, declarationNames |-> <<>>,
       identifierTokens |-> << <<"b">> >>, hasStop |-> TRUE],
      [kind |-> "FunctionDeclaration", name |-> << <<"b">> >>, declarationNames |-> <<>>,
       identifierTokens |-> << <<"b">>, <<"a">>, <<"b">> >>, hasStop |-> TRUE],
      [kind |-> "InterfaceDeclaration", name |-> << <<"c">> >>, declarationNames |-> <<>>,
       identifierTokens |-> << <<"c">> >>, hasStop |-> TRUE],
      [kind |-> "TypeAliasDeclaration", name |-> << <<"a">> >>, declarationNames |-> <<>>,
       identifierTokens |-> << <<"a">>, <<"c">> >>, hasStop |-> TRUE],
      [kind |-> "Block", name |-> <<>>, declarationNames |-> <<>>,
       identifierTokens |-> << <<"a">> >>, hasStop |-> TRUE],
      [kind |-> "VariableStatement", name |-> <<>>,
       declarationNames |-> << <<"a">>, <<"b">> >>,
       identifierTokens |-> << <<"a">>, <<"b">>, <<"c">> >>, hasStop |-> TRUE],
      [kind |-> "EnumDeclaration", name |-> << <<"c">> >>, declarationNames |-> <<>>,
       identifierTokens |-> << <<"c">>, <<"a">> >>, hasStop |-> TRUE],
      [kind |-> "ImportDeclaration", name |-> <<>>, declarationNames |-> <<>>,
       identifierTokens |-> << <<"b">> >>, hasStop |-> TRUE] }

JavaShapes ==
    { [kind |-> "typeDeclaration", name |-> <<>>, declarationNames |-> <<>>,
       identifierTokens |-> << <<"a">>, <<"b">>, <<"a">> >>, hasStop |-> TRUE],
      [kind |-> "typeDeclaration", name |-> <<>>, declarationNames |-> <<>>,
       identifierTokens |-> << <<"b">> >>, hasStop |-> TRUE],
      [kind |-> "typeDeclaration", name |-> <<>>, declarationNames |-> <<>>,
       identifierTokens |-> << <<"c">>, <<"a">> >>, hasStop |-> FALSE],
      [kind |-> "typeDeclaration", name |-> <<>>, declarationNames |-> <<>>,
       identifierTokens |-> <<>>, hasStop |-> TRUE],
      [kind |-> "importDeclaration", name |-> <<>>, declarationNames |-> <<>>,
       identifierTokens |-> << <<"b">> >>, hasStop |-> TRUE] }

\* a file of another type is not parsed: only its text matters
OtherShapes ==
    { [kind |-> "text", name |-> <<>>, declarationNames |-> <<>>,
       identifierTokens |-> <<>>, hasStop |-> TRUE] }

FileNames == {"ts", "java", "txt"}

ShapesOf(name) ==
    IF name = "ts" THEN TsShapes ELSE IF name = "java" THEN JavaShapes ELSE OtherShapes

Trivias == {<<>>, <<NewLine>>}
Widths == 1..3
CursorLines == 0..1

StatementsOf(name) ==
    { [kind |-> s.kind, name |-> s.name, declarationNames |-> s.declarationNames,
       identifierTokens |-> s.identifierTokens, hasStop |-> s.hasStop,
       trivia |-> t, width |-> w] : s \in ShapesOf(name), t \in Trivias, w \in Widths }

SourceFiles(name) ==
    UNION { [statements : [1..n -> StatementsOf(name)], endTrivia : Trivias] :
            n \in 0..MaxStatements }

Letters == <<"A", "B", "C", "D", "E", "F">>

\* the text of the i-th statement without its trivia: a statement of width
\* 3 has a line break in it and so spans two lines
BodyText(i, width) ==
    IF width = 3 THEN <<Letters[i], NewLine, Letters[i]>>
    ELSE [k \in 1..width |-> Letters[i]]

\* the text the parsed file was parsed from
TextOf(parsed) ==
    Join([i \in 1..Len(parsed.statements) |->
              parsed.statements[i].trivia \o BodyText(i, parsed.statements[i].width)])
    \o parsed.endTrivia

\* ts.Node.getFullStart() of the i-th statement
getFullStart(parsed, i) ==
    Sum([k \in 1..(i - 1) |->
             Len(parsed.statements[k].trivia) + parsed.statements[k].width])

\* ts.Node.getStart(): the offset of the first token, after the leading trivia
getStart(parsed, i) == getFullStart(parsed, i) + Len(parsed.statements[i].trivia)

\* ts.Node.getWidth()
getWidth(parsed, i) == parsed.statements[i].width

\* ts.Node.getFullText()
getFullText(parsed, i) ==
    parsed.statements[i].trivia \o BodyText(i, parsed.statements[i].width)

\* antlr Token.line (1-based) of the token at an offset
TokenLine(text, offset) ==
    1 + Cardinality({k \in 1..offset : text[k] = NewLine})

\* antlr Token.charPositionInLine of the token at an offset
TokenCharPositionInLine(text, offset) ==
    LET breaks == {k \in 1..offset : text[k] = NewLine}
    IN IF breaks = {} THEN offset
       ELSE offset - (CHOOSE k \in breaks : \A o \in breaks : o <= k)

(***************************************************************************)
(* The Declaration Extractor: features/moveTopLevelNode/2_factBuilder.ts   *)
(***************************************************************************)
getTopLevelNodeKind(kind) ==
    CASE kind = "ClassDeclaration" -> "CLASS"
      [] kind = "FunctionDeclaration" -> "FUNCTION"
      [] kind = "InterfaceDeclaration" -> "INTERFACE"
      [] kind = "TypeAliasDeclaration" -> "TYPE_ALIAS"
      [] kind = "Block" -> "BLOCK"
      [] kind = "VariableStatement" -> "VARIABLE"
      [] kind = "EnumDeclaration" -> "ENUM"
      [] OTHER -> "UNKNOWN"

\* buildHash of utilities and createHash(...).digest(...): a content hash,
\* taken to be free of collisions; the tag keeps a hash apart from its text
buildHash(text) == <<"#">> \o text

\* the result of an evaluation: a value, or a thrown TypeError
Returns(value) == [throws |-> FALSE, value |-> value]
Throws == [throws |-> TRUE, value |-> <<>>]

\* node.name.text: reading a property of undefined throws
NameText(name) == IF name = <<>> THEN Throws ELSE Returns(name[1])

getChildIdentifiers(parsed, i) == parsed.statements[i].identifierTokens

\* getIdentifiers reading node.name.text of a class or function without the
\* optional chaining
getIdentifiers_Unguarded(parsed, i) ==
    LET node == parsed.statements[i]
    IN CASE node.kind \in {"ClassDeclaration", "FunctionDeclaration",
                           "InterfaceDeclaration", "TypeAliasDeclaration",
                           "EnumDeclaration"} ->
              IF NameText(node.name).throws THEN Throws
              ELSE Returns(<<NameText(node.name).value>>)
         [] node.kind = "Block" -> Returns(<<buildHash(getFullText(parsed, i))>>)
         [] node.kind = "VariableStatement" -> Returns(node.declarationNames)
         [] OTHER -> Returns(<<>>)

getIdentifiers(parsed, i) ==
    LET node == parsed.statements[i]
    IN CASE node.kind \in {"ClassDeclaration", "FunctionDeclaration"} ->
              \* node.name?.text ?? null
              IF node.name = <<>> THEN Returns(<<>>) ELSE Returns(<<node.name[1]>>)
         [] node.kind \in {"InterfaceDeclaration", "TypeAliasDeclaration",
                           "EnumDeclaration"} ->
              IF NameText(node.name).throws THEN Throws
              ELSE Returns(<<NameText(node.name).value>>)
         [] node.kind = "Block" -> Returns(<<buildHash(getFullText(parsed, i))>>)
         [] node.kind = "VariableStatement" -> Returns(node.declarationNames)
         [] OTHER -> Returns(<<>>)

RECURSIVE getStringNodesFrom(_, _, _)
\* the forEach callback of getStringNodes for the nodes from index on; a
\* topLevelNodeIndex is <<>> for null and <<index>> for an index
getStringNodesFrom(text, topLevelNodes, index) ==
    IF index >= Len(topLevelNodes) THEN <<>>
    ELSE LET topLevelNode == topLevelNodes[index + 1]
             before ==
                 IF index = 0
                 THEN [text |-> Slice(text, 0, topLevelNode.start),
                       topLevelNodeIndex |-> <<>>]
                 ELSE [text |-> Slice(text, topLevelNodes[index].end + 1,
                                      topLevelNode.start),
                       topLevelNodeIndex |-> <<>>]
             own == [text |-> Slice(text, topLevelNode.start, topLevelNode.end + 1),
                     topLevelNodeIndex |-> <<index>>]
             after ==
                 IF index = Len(topLevelNodes) - 1
                 THEN << [text |-> SliceFrom(text, topLevelNode.end + 1),
                          topLevelNodeIndex |-> <<>>] >>
                 ELSE <<>>
         IN <<before, own>> \o after
            \o getStringNodesFrom(text, topLevelNodes, index + 1)

getStringNodes(text, topLevelNodes) == getStringNodesFrom(text, topLevelNodes, 0)

\* the kinds the filter of the TypeScript branch keeps
TsDeclarationKinds ==
    {"ClassDeclaration", "FunctionDeclaration", "InterfaceDeclaration",
     "TypeAliasDeclaration", "Block", "VariableStatement", "EnumDeclaration"}

\* the map callback with the end one past the last character of the node
buildTsTopLevelNode_EndExclusive(text, parsed, i) ==
    LET node == parsed.statements[i]
        start == getStart(parsed, i)
        end == start + getWidth(parsed, i)
        identifiers == Elements(getIdentifiers(parsed, i).value)
        childIdentifiers == Elements(getChildIdentifiers(parsed, i))
    IN [kind |-> getTopLevelNodeKind(node.kind),
        id |-> buildHash(Slice(text, start, end + 1)),
        start |-> start,
        end |-> end,
        identifiers |-> identifiers,
        childIdentifiers |-> childIdentifiers \ identifiers]

\* the map callback of the TypeScript branch
buildTsTopLevelNode(text, parsed, i) ==
    LET node == parsed.statements[i]
        start == getStart(parsed, i)
        end == start + getWidth(parsed, i) - 1
        identifiers == Elements(getIdentifiers(parsed, i).value)
        childIdentifiers == Elements(getChildIdentifiers(parsed, i))
    IN [kind |-> getTopLevelNodeKind(node.kind),
        id |-> buildHash(Slice(text, start, end + 1)),
        start |-> start,
        end |-> end,
        identifiers |-> identifiers,
        childIdentifiers |-> childIdentifiers \ identifiers]

\* Visitor.visitTypeDeclaration of the Java branch
visitTypeDeclaration(text, parsed, i) ==
    LET node == parsed.statements[i]
        lengths == [k \in 1..Len(SplitLengths(text, NewLine)) |->
                        SplitLengths(text, NewLine)[k] + 1]
        startOffset == getStart(parsed, i)
        stopOffset == startOffset + getWidth(parsed, i) - 1
        startLine == TokenLine(text, startOffset) - 1
        startPosition == TokenCharPositionInLine(text, startOffset)
        endLine == (IF node.hasStop THEN TokenLine(text, stopOffset)
                    ELSE TokenLine(text, startOffset)) - 1
        endPosition == IF node.hasStop THEN TokenCharPositionInLine(text, stopOffset)
                       ELSE TokenCharPositionInLine(text, startOffset)
        start == Sum(Slice(lengths, 0, startLine)) + startPosition
        end == Sum(Slice(lengths, 0, endLine)) + endPosition
        allIdentifiers == node.identifierTokens
    IN [kind |-> "CLASS",
        id |-> buildHash(BodyText(i, node.width)),
        start |-> start,
        end |-> end,
        identifiers |-> Elements(Slice(allIdentifiers, 0, 1)),
        childIdentifiers |-> Elements(SliceFrom(allIdentifiers, 1))]

RECURSIVE SelectIndexes(_, _, _)
\* the indexes from i on of the statements of one of the kinds, in order
SelectIndexes(parsed, i, kinds) ==
    IF i > Len(parsed.statements) THEN <<>>
    ELSE (IF parsed.statements[i].kind \in kinds THEN <<i>> ELSE <<>>)
         \o SelectIndexes(parsed, i + 1, kinds)

\* the facts the Java branch keeps: those of kind TYPE_DECLARATION
JavaDeclarationKinds == {"typeDeclaration"}

\* topLevelNodes.findIndex(node => node.start >= fineLineStart)
findIndex(topLevelNodes, fineLineStart) ==
    LET hits == {i \in 1..Len(topLevelNodes) : topLevelNodes[i].start >= fineLineStart}
    IN IF hits = {} THEN -1
       ELSE (CHOOSE i \in hits : \A k \in hits : i <= k) - 1

\* buildMoveTopLevelNodeFact(userCommand); parsed is what the parser of the
\* file type returns for userCommand.fileText
buildMoveTopLevelNodeFact(userCommand, parsed) ==
    LET text == userCommand.fileText
        lineLengths == SplitLengths(text, NewLine)
        fineLineStart ==
            Sum([k \in 1..Min(userCommand.fileLine, Len(lineLengths)) |->
                     lineLengths[k] + 1])
        tsIndexes == SelectIndexes(parsed, 1, TsDeclarationKinds)
        javaIndexes == SelectIndexes(parsed, 1, JavaDeclarationKinds)
        topLevelNodes ==
            IF userCommand.fileName = "ts"
            THEN [k \in 1..Len(tsIndexes) |->
                      buildTsTopLevelNode(text, parsed, tsIndexes[k])]
            ELSE IF userCommand.fileName = "java"
            THEN [k \in 1..Len(javaIndexes) |->
                      visitTypeDeclaration(text, parsed, javaIndexes[k])]
            ELSE <<>>
        raised ==
            /\ userCommand.fileName = "ts"
            /\ \E k \in 1..Len(tsIndexes) : getIdentifiers(parsed, tsIndexes[k]).throws
    IN IF raised
       THEN [raised |-> TRUE, topLevelNodes |-> <<>>,
             selectedTopLevelNodeIndex |-> -1, stringNodes |-> <<>>]
       ELSE [raised |-> FALSE,
             topLevelNodes |-> topLevelNodes,
             selectedTopLevelNodeIndex |-> findIndex(topLevelNodes, fineLineStart),
             stringNodes |-> getStringNodes(text, topLevelNodes)]

(***************************************************************************)
(* The extractor run: a document is opened and its fact is built.          *)
(***************************************************************************)
ExtractorInit ==
    /\ pc = "input"
    /\ fileName \in FileNames
    /\ sourceFile \in SourceFiles(fileName)
    /\ fileText = TextOf(sourceFile)
    /\ fileLine \in CursorLines
    /\ fact = NoValue
    /\ nodes = <<>>
    /\ weights = << <<>>, <<>>, <<>> >>
    /\ coefficient = NoValue
    /\ solutions = NoValue
    /\ codeActions = NoValue
    /\ characterDifference = 0
    /\ job = NoValue
    /\ jobOutput = NoValue
    /\ StoresEmpty

BuildFact ==
    /\ pc = "input"
    /\ fact' = buildMoveTopLevelNodeFact(
                   [fileName |-> fileName, fileText |-> fileText, fileLine |-> fileLine],
                   sourceFile)
    /\ pc' = "fact"
    /\ UNCHANGED <<fileName, fileText, fileLine, sourceFile, advisorVars, jobVars, storeVars>>

ExtractorNext == BuildFact

SpecExtractor == ExtractorInit /\ [][ExtractorNext]_vars

\* the texts of a StringNode sequence
TextsOf(stringNodes) == [k \in 1..Len(stringNodes) |-> stringNodes[k].text]

\* C1: for every file, the texts of the StringNode sequence of its fact,
\* concatenated in order, are the file text (also when no declaration is found)
C1_RoundTrip ==
    pc = "fact" => Join(TextsOf(fact.stringNodes)) = fileText

\* the statements of the parsed file that are declarations of its file type
DeclarationIndexes ==
    IF fileName = "ts" THEN SelectIndexes(sourceFile, 1, TsDeclarationKinds)
    ELSE IF fileName = "java" THEN SelectIndexes(sourceFile, 1, JavaDeclarationKinds)
    ELSE <<>>

RECURSIVE GCD(_, _)
GCD(a, b) == IF b = 0 THEN a ELSE GCD(b, a % b)

Abs(a) == IF a < 0 THEN -a ELSE a

Fraction(n, d) ==
    LET g == GCD(Abs(n), d) IN <<n \div g, d \div g>>

Zero == Fraction(0, 1)
One == Fraction(1, 1)

Plus(x, y) == Fraction(x[1] * y[2] + y[1] * x[2], x[2] * y[2])
Minus(x, y) == Fraction(x[1] * y[2] - y[1] * x[2], x[2] * y[2])
Times(x, y) == Fraction(x[1] * y[1], x[2] * y[2])
Less(x, y) == x[1] * y[2] < y[1] * x[2]
LessOrEqual(x, y) == x[1] * y[2] <= y[1] * x[2]

RECURSIVE SumOf(_)
SumOf(fractions) ==
    IF fractions = <<>> THEN Zero ELSE Plus(Head(fractions), SumOf(Tail(fractions)))

(***************************************************************************)
(* The Coefficient Model: 2_factBuilders/coefficients.ts.                  *)
(***************************************************************************)
RECURSIVE CountReferences(_, _, _)
\* the number of declarations from position j on that the declaration at
\* position i references
CountReferences(list, i, j) ==
    IF j > Len(list) THEN 0
    ELSE (IF list[i].childIdentifiers \cap list[j].identifiers # {} THEN 1 ELSE 0)
         + CountReferences(list, i, j + 1)

RECURSIVE CountViolations(_, _)
\* the number of references from a declaration at position i or later to a
\* declaration after it
CountViolations(list, i) ==
    IF i > Len(list) THEN 0
    ELSE CountReferences(list, i, i + 1) + CountViolations(list, i + 1)

\* the dependency coefficient counting the references in both directions
calculateDependencyCoefficient_BothWays(list) ==
    IF Len(list) = 0 THEN Zero
    ELSE Fraction(Sum([i \in 1..Len(list) |->
                           CountReferences(list, i, 1)
                           - (IF list[i].childIdentifiers \cap list[i].identifiers # {}
                              THEN 1 ELSE 0)]),
                  Len(list))

calculateDependencyCoefficient(list) ==
    IF Len(list) = 0 THEN Zero
    ELSE Fraction(CountViolations(list, 1), Len(list))

\* the name a declaration is compared by: its identifier
PrimaryIdentifier(node) ==
    IF node.identifiers = {} THEN <<>> ELSE CHOOSE name \in node.identifiers : TRUE

RECURSIVE JaroMatches(_, _, _, _)
\* the matching of the Jaro similarity: each character of s1 from position i
\* on is matched to the first equal character of s2 within the window that is
\* not taken yet; the list of the pairs <<position in s1, position in s2>>
JaroMatches(s1, s2, i, taken) ==
    IF i > Len(s1) THEN <<>>
    ELSE LET window == Max(0, (Max(Len(s1), Len(s2)) \div 2) - 1)
             candidates == {j \in 1..Len(s2) :
                                /\ j \notin taken
                                /\ s2[j] = s1[i]
                                /\ j >= i - window
                                /\ j <= i + window}
         IN IF candidates = {} THEN JaroMatches(s1, s2, i + 1, taken)
            ELSE LET j == CHOOSE c \in candidates : \A o \in candidates : c <= o
                 IN << <<i, j>> >> \o JaroMatches(s1, s2, i + 1, taken \cup {j})

RECURSIVE Ascending(_)
\* the numbers of a set in ascending order
Ascending(set) ==
    IF set = {} THEN <<>>
    ELSE LET least == CHOOSE c \in set : \A o \in set : c <= o
         IN <<least>> \o Ascending(set \ {least})

\* the Jaro similarity of two texts
Jaro(s1, s2) ==
    LET matches == JaroMatches(s1, s2, 1, {})
        m == Len(matches)
        second == Ascending({matches[k][2] : k \in 1..m})
        halves == Cardinality({k \in 1..m : s1[matches[k][1]] # s2[second[k]]})
        t == halves \div 2
    IN IF m = 0 THEN Zero
       ELSE Times(Fraction(1, 3),
                  SumOf(<<Fraction(m, Len(s1)), Fraction(m, Len(s2)),
                          Fraction(m - t, m)>>))

\* the length of the common prefix of two texts, at most 4
CommonPrefix(s1, s2) ==
    Cardinality({k \in 1..Min(4, Min(Len(s1), Len(s2))) :
                     \A i \in 1..k : s1[i] = s2[i]})

\* the Jaro-Winkler similarity: the Jaro similarity, raised for a common
\* prefix when it is above 0.7
JaroWinkler(s1, s2) ==
    IF s1 = s2 THEN One
    ELSE LET jaro == Jaro(s1, s2)
         IN IF Less(Fraction(7, 10), jaro)
            THEN Plus(jaro, Times(Fraction(CommonPrefix(s1, s2), 10),
                                  Minus(One, jaro)))
            ELSE jaro

\* the normalized distance of two names
NameDistance(s1, s2) == Minus(One, JaroWinkler(s1, s2))

\* the similarity coefficient averaged over the declarations, not the pairs
calculateSimilarityCoefficient_PerNode(list, reserved) ==
    IF Len(list) < 2 THEN Zero
    ELSE Times(Fraction(1, Len(list)),
               SumOf([k \in 1..(Len(list) - 1) |->
                          NameDistance(PrimaryIdentifier(list[k]),
                                       PrimaryIdentifier(list[k + 1]))]))

\* the second parameter is reserved
calculateSimilarityCoefficient(list, reserved) ==
    IF Len(list) < 2 THEN Zero
    ELSE Times(Fraction(1, Len(list) - 1),
               SumOf([k \in 1..(Len(list) - 1) |->
                          NameDistance(PrimaryIdentifier(list[k]),
                                       PrimaryIdentifier(list[k + 1]))]))

\* the kind coefficient as the share of the kinds that occur
calculateKindCoefficient_DistinctKinds(list, reserved) ==
    IF Len(list) < 2 THEN Zero
    ELSE Fraction(Cardinality({list[k].kind : k \in 1..Len(list)}) - 1,
                  Len(list) - 1)

\* the second parameter is reserved
calculateKindCoefficient(list, reserved) ==
    IF Len(list) < 2 THEN Zero
    ELSE Fraction(Cardinality({k \in 1..(Len(list) - 1) :
                                   list[k].kind # list[k + 1].kind}),
                  Len(list) - 1)

\* the coefficient triple of an ordering
calculateCoefficient(list) ==
    [dependencyCoefficient |-> calculateDependencyCoefficient(list),
     similarityCoefficient |-> calculateSimilarityCoefficient(list, 0),
     kindCoefficient |-> calculateKindCoefficient(list, 0)]

(***************************************************************************)
(* The Solution Search: 2_factBuilders/solutions.ts.                       *)
(***************************************************************************)
\* the list with the element at oldIndex removed and put back at newIndex
moveElementInArray(list, oldIndex, newIndex) ==
    LET without == SubSeq(list, 1, oldIndex) \o SubSeq(list, oldIndex + 2, Len(list))
    IN SubSeq(without, 1, newIndex) \o <<list[oldIndex + 1]>>
       \o SubSeq(without, newIndex + 1, Len(without))

\* the weighted sum of the three coefficients
calculateScore(triple, weight) ==
    SumOf(<<Times(Fraction(weight[1], 1), triple.dependencyCoefficient),
            Times(Fraction(weight[2], 1), triple.similarityCoefficient),
            Times(Fraction(weight[3], 1), triple.kindCoefficient)>>)

\* the score of the ordering a relocation <<oldIndex, newIndex>> results in
MoveScore(list, weight, move) ==
    calculateScore(calculateCoefficient(moveElementInArray(list, move[1], move[2])),
                   weight)

\* every relocation of one declaration
Relocations(list) ==
    {move \in (0..(Len(list) - 1)) \X (0..(Len(list) - 1)) : move[1] # move[2]}

\* the ranking: lower score first, then the smaller displacement, then the
\* order of enumeration
RanksBefore(scores, a, b) ==
    LET keyA == <<Abs(a[2] - a[1]), a[1], a[2]>>
        keyB == <<Abs(b[2] - b[1]), b[1], b[2]>>
    IN \/ Less(scores[a], scores[b])
       \/ /\ scores[a] = scores[b]
          /\ \/ keyA[1] < keyB[1]
             \/ keyA[1] = keyB[1] /\ keyA[2] < keyB[2]
             \/ keyA[1] = keyB[1] /\ keyA[2] = keyB[2] /\ keyA[3] <= keyB[3]

RECURSIVE Ranked(_, _)
Ranked(scores, moves) ==
    IF moves = {} THEN <<>>
    ELSE LET best == CHOOSE a \in moves : \A b \in moves : RanksBefore(scores, a, b)
         IN <<best>> \o Ranked(scores, moves \ {best})

\* the search keeping the relocations that do not raise the score
getSolutions_NotWorse(list, weight) ==
    LET scores == [move \in Relocations(list) |-> MoveScore(list, weight, move)]
        current == calculateScore(calculateCoefficient(list), weight)
        improving == {move \in Relocations(list) : LessOrEqual(scores[move], current)}
        ranked == Ranked(scores, improving)
    IN [k \in 1..Len(ranked) |->
            [oldIndex |-> ranked[k][1],
             newIndex |-> ranked[k][2],
             nodes |-> list,
             coefficient |->
                 calculateCoefficient(
                     moveElementInArray(list, ranked[k][1], ranked[k][2]))]]

\* the score of every relocation
MoveScores(list, weight) ==
    [move \in Relocations(list) |-> MoveScore(list, weight, move)]

\* the solutions of the relocations in their ranking
buildSolutions(list, ranked) ==
    [k \in 1..Len(ranked) |->
         [oldIndex |-> ranked[k][1],
          newIndex |-> ranked[k][2],
          nodes |-> list,
          coefficient |->
              calculateCoefficient(
                  moveElementInArray(list, ranked[k][1], ranked[k][2]))]]

\* a solution is improving: it strictly lowers the current score
rankSolutions(list, scores, current) ==
    buildSolutions(
        list,
        Ranked(scores, {move \in Relocations(list) : Less(scores[move], current)}))

getSolutions(list, weight) ==
    rankSolutions(list, MoveScores(list, weight),
                  calculateScore(calculateCoefficient(list), weight))

(***************************************************************************)
(* The code-action provider: actionProviders/                              *)
(* moveTopLevelNodeActionProvider.ts.  A value that may be null is a list  *)
(* of no or one element.                                                   *)
(***************************************************************************)
buildReason(solution) ==
    LET dependencyCoefficient == solution.coefficient.dependencyCoefficient
        similarityCoefficient == solution.coefficient.similarityCoefficient
        kindCoefficient == solution.coefficient.kindCoefficient
    IN IF /\ Less(similarityCoefficient, dependencyCoefficient)
          /\ Less(kindCoefficient, dependencyCoefficient)
       THEN "more ordered dependencies"
       ELSE IF /\ Less(dependencyCoefficient, similarityCoefficient)
               /\ Less(kindCoefficient, similarityCoefficient)
       THEN "more name similarity"
       ELSE IF /\ Less(similarityCoefficient, kindCoefficient)
               /\ Less(dependencyCoefficient, kindCoefficient)
       THEN "more same-type blocks"
       ELSE Null

\* array[index]: the element, or nothing when the index is outside the array
At(array, index) ==
    IF index \in 0..(Len(array) - 1) THEN <<array[index + 1]>> ELSE <<>>

\* buildCodeAction without the return for a missing node
buildCodeAction_Unchecked(name, difference, solution) ==
    << [orderLabel |-> IF solution.newIndex = 0 THEN "before" ELSE "after",
        otherIdentifiers |-> {},
        reason |-> buildReason(solution),
        command |-> "intuita.moveTopLevelNode",
        fileName |-> name,
        oldIndex |-> solution.oldIndex,
        newIndex |-> solution.newIndex,
        characterDifference |-> difference] >>

buildCodeAction(name, difference, solution) ==
    LET otherNode == IF solution.newIndex = 0 THEN At(solution.nodes, 1)
                     ELSE At(solution.nodes, solution.newIndex - 1)
        node == At(solution.nodes, solution.newIndex)
    IN IF node = <<>> \/ otherNode = <<>> THEN <<>>
       ELSE << [orderLabel |-> IF solution.newIndex = 0 THEN "before" ELSE "after",
                otherIdentifiers |-> otherNode[1].identifiers,
                reason |-> buildReason(solution),
                command |-> "intuita.moveTopLevelNode",
                fileName |-> name,
                oldIndex |-> solution.oldIndex,
                newIndex |-> solution.newIndex,
                characterDifference |-> difference] >>

RECURSIVE Flatten(_)
\* .filter(isNeitherNullNorUndefined) of a list of values that may be null
Flatten(list) == IF list = <<>> THEN <<>> ELSE Head(list) \o Flatten(Tail(list))

isRelocation(solution) == solution.newIndex # solution.oldIndex

\* configuration.get<number>(key) ?? 1
WeightOrDefault(configured) == IF configured = <<>> THEN 1 ELSE configured[1]

\* provideCodeActions without the .slice(0, 1)
provideCodeActions_NoSlice(name, difference, factSolutions) ==
    LET filtered == SelectSeq(factSolutions, isRelocation)
    IN Flatten([k \in 1..Len(filtered) |->
                    buildCodeAction(name, difference, filtered[k])])

\* the code actions provideCodeActions makes of the solutions of the fact
provideCodeActions(name, difference, factSolutions) ==
    LET filtered == SelectSeq(factSolutions, isRelocation)
        first == Slice(filtered, 0, 1)
    IN Flatten([k \in 1..Len(first) |-> buildCodeAction(name, difference, first[k])])

(***************************************************************************)
(* Lists of declarations, built as the tests build them (buildNode).       *)
(***************************************************************************)
Declaration(name, kind, references) ==
    [kind |-> kind, id |-> buildHash(name), start |-> 0, end |-> 10,
     identifiers |-> {name}, childIdentifiers |-> references]

DeclarationPool ==
    { Declaration(<<"a">>, "CLASS", {<<"b">>}),
      Declaration(<<"b">>, "FUNCTION", {}),
      Declaration(<<"c">>, "INTERFACE", {<<"a">>, <<"b">>}),
      Declaration(<<"t", "e", "s", "t">>, "CLASS", {}),
      Declaration(<<"t", "a">>, "CLASS", {}),
      Declaration(<<"t", "b">>, "CLASS", {<<"t", "a">>}),
      Declaration(<<"t", "c">>, "FUNCTION", {<<"c">>}),
      Declaration(<<"t", "e", "s", "t", "a">>, "VARIABLE", {}),
      Declaration(<<"t", "e", "s", "t", "b">>, "VARIABLE", {<<"t", "e", "s", "t", "c">>}),
      Declaration(<<"t", "e", "s", "t", "c">>, "ENUM", {}) }

DeclarationLists == UNION { [1..n -> DeclarationPool] : n \in 0..MaxNodes }

\* the coefficient run: the coefficient triple of a list is calculated
CoefficientInit ==
    /\ pc = "input"
    /\ fileName = "ts"
    /\ fileText = <<>>
    /\ fileLine = 0
    /\ sourceFile = [statements |-> <<>>, endTrivia |-> <<>>]
    /\ fact = NoValue
    /\ nodes \in DeclarationLists
    /\ weights = << <<>>, <<>>, <<>> >>
    /\ coefficient = NoValue
    /\ solutions = NoValue
    /\ codeActions = NoValue
    /\ characterDifference = 0
    /\ job = NoValue
    /\ jobOutput = NoValue
    /\ StoresEmpty

CalculateCoefficient ==
    /\ pc = "input"
    /\ coefficient' = calculateCoefficient(nodes)
    /\ pc' = "coefficient"
    /\ UNCHANGED <<extractorVars, nodes, weights, solutions, codeActions, jobVars,
                   storeVars>>

CoefficientNext == CalculateCoefficient

SpecCoefficient == CoefficientInit /\ [][CoefficientNext]_vars

\* the position pairs i < j at which the earlier declaration references the
\* later one
ForwardReferences(list) ==
    {pair \in (1..Len(list)) \X (1..Len(list)) :
         /\ pair[1] < pair[2]
         /\ \E name \in list[pair[1]].childIdentifiers :
                name \in list[pair[2]].identifiers}

\* C2: the dependency coefficient of n declarations is the number of position
\* pairs i < j where the declaration at i references the one at j, divided by
\* n, and 0 for the empty list; references to earlier declarations do not count
C2_DependencyCoefficient ==
    pc = "coefficient" =>
        coefficient.dependencyCoefficient =
            IF nodes = <<>> THEN Zero
            ELSE Fraction(Cardinality(ForwardReferences(nodes)), Len(nodes))

\* C2 witness: the coefficient of a, b, c was calculated, where a references
\* the later b and c references the earlier a and b
C2_Witness ==
    /\ pc = "coefficient"
    /\ Len(nodes) = 3
    /\ nodes[1].identifiers = {<<"a">>}
    /\ nodes[2].identifiers = {<<"b">>}
    /\ nodes[3].identifiers = {<<"c">>}
    /\ coefficient.dependencyCoefficient = Fraction(1, 3)

NamesOf(list) == [k \in 1..Len(list) |-> PrimaryIdentifier(list[k])]

\* names of one length that share all but their last character, which is
\* different in each of them
PrefixFamily(list) ==
    LET names == NamesOf(list)
    IN /\ Len(list) >= 2
       /\ \A i, j \in 1..Len(list) :
              /\ Len(names[i]) = Len(names[j])
              /\ Len(names[i]) >= 1
              /\ SubSeq(names[i], 1, Len(names[i]) - 1)
                     = SubSeq(names[j], 1, Len(names[j]) - 1)
              /\ i # j => names[i][Len(names[i])] # names[j][Len(names[j])]

\* x is y to within a hundredth
About(x, y) ==
    /\ LessOrEqual(Minus(x, y), Fraction(1, 100))
    /\ LessOrEqual(Minus(y, x), Fraction(1, 100))

C4_KindCoefficient ==
    pc = "coefficient" =>
        /\ nodes = <<>> => coefficient.kindCoefficient = Zero
        /\ (\A i, j \in 1..Len(nodes) : nodes[i].kind = nodes[j].kind) =>
               coefficient.kindCoefficient = Zero
        /\ (/\ Len(nodes) >= 2
            /\ \A k \in 1..(Len(nodes) - 1) : nodes[k].kind # nodes[k + 1].kind) =>
               coefficient.kindCoefficient = One

\* C4 witness: the coefficient of three declarations of three kinds was
\* calculated
C4_Witness ==
    /\ pc = "coefficient"
    /\ Len(nodes) = 3
    /\ Cardinality({nodes[k].kind : k \in 1..3}) = 3
    /\ coefficient.kindCoefficient = One

(***************************************************************************)
(* The advisor run: code actions are requested for a document with a list  *)
(* of declarations.                                                        *)
(***************************************************************************)
SearchPool ==
    { Declaration(<<"a">>, "CLASS", {<<"b">>}),
      Declaration(<<"b">>, "FUNCTION", {}),
      Declaration(<<"c">>, "INTERFACE", {<<"a">>, <<"b">>}),
      Declaration(<<"t", "a">>, "CLASS", {}),
      Declaration(<<"t", "b">>, "CLASS", {<<"t", "a">>}),
      Declaration(<<"t", "e", "s", "t", "a">>, "VARIABLE", {}) }

SearchLists == UNION { [1..n -> SearchPool] : n \in 0..MaxNodes }

\* the weights of the configuration: not set, or a non-negative number
ConfiguredWeights ==
    { << <<>>, <<>>, <<>> >>,
      << <<1>>, <<0>>, <<0>> >>,
      << <<0>>, <<2>>, <<1>> >> }

EffectiveWeights ==
    <<WeightOrDefault(weights[1]), WeightOrDefault(weights[2]),
      WeightOrDefault(weights[3])>>

AdvisorInit ==
    /\ pc = "input"
    /\ fileName = "ts"
    /\ fileText = <<>>
    /\ fileLine = 0
    /\ sourceFile = [statements |-> <<>>, endTrivia |-> <<>>]
    /\ fact = NoValue
    /\ nodes \in SearchLists
    /\ weights \in ConfiguredWeights
    /\ coefficient = NoValue
    /\ solutions = NoValue
    /\ codeActions = NoValue
    /\ characterDifference = 0
    /\ job = NoValue
    /\ jobOutput = NoValue
    /\ StoresEmpty

\* the solution lists a fact can hand to the provider for a search result:
\* the result, and the result behind a solution made elsewhere: one that keeps
\* the first declaration in its place, which the provider filters out, or one
\* whose newIndex is outside the list
FactSolutions(list, found) ==
    {found} \cup
    {<<[oldIndex |-> 0, newIndex |-> newIndex, nodes |-> list,
        coefficient |-> calculateCoefficient(list)]>> \o found :
     newIndex \in IF list = <<>> THEN {} ELSE {-1, 0, Len(list)}}

\* provideCodeActions: the fact of the document is built, with its solutions,
\* and the code actions are made of them
ProvideCodeActions ==
    /\ pc = "input"
    /\ solutions' = getSolutions(nodes, EffectiveWeights)
    /\ \E factSolutions \in FactSolutions(nodes, solutions') :
           /\ fact' = [solutions |-> factSolutions,
                       characterDifference |-> characterDifference]
           /\ codeActions' = provideCodeActions(fileName, fact'.characterDifference,
                                                fact'.solutions)
    /\ pc' = "codeActions"
    /\ UNCHANGED <<fileName, fileText, fileLine, sourceFile, nodes, weights,
                   coefficient, jobVars, storeVars>>

AdvisorNext == ProvideCodeActions

SpecAdvisor == AdvisorInit /\ [][AdvisorNext]_vars

\* the weights of the claim: the configured ones, 1 where none is configured
ClaimedWeights ==
    [k \in 1..3 |-> IF weights[k] = <<>> THEN 1 ELSE weights[k][1]]

\* the weighted score of an ordering under the weights of the claim
ClaimedScore(list) ==
    LET triple == calculateCoefficient(list)
    IN SumOf(<<Times(Fraction(ClaimedWeights[1], 1), triple.dependencyCoefficient),
               Times(Fraction(ClaimedWeights[2], 1), triple.similarityCoefficient),
               Times(Fraction(ClaimedWeights[3], 1), triple.kindCoefficient)>>)

\* C5: every solution of the search relocates (oldIndex # newIndex) and has a
\* weighted score strictly below that of the current order; there is none for
\* fewer than 2 declarations or when no relocation lowers the score
C5_ImprovingSolutions ==
    pc = "codeActions" =>
        /\ \A k \in 1..Len(solutions) :
               /\ solutions[k].oldIndex # solutions[k].newIndex
               /\ solutions[k].oldIndex \in 0..(Len(nodes) - 1)
               /\ solutions[k].newIndex \in 0..(Len(nodes) - 1)
               /\ solutions[k].coefficient =
                      calculateCoefficient(
                          moveElementInArray(nodes, solutions[k].oldIndex,
                                             solutions[k].newIndex))
               /\ Less(ClaimedScore(moveElementInArray(nodes, solutions[k].oldIndex,
                                                       solutions[k].newIndex)),
                       ClaimedScore(nodes))
        /\ Len(nodes) < 2 => solutions = <<>>
        /\ (\A move \in Relocations(nodes) :
                ~Less(ClaimedScore(moveElementInArray(nodes, move[1], move[2])),
                      ClaimedScore(nodes))) => solutions = <<>>

\* C5 witness: the search returned a solution under the default weights
C5_Witness ==
    /\ pc = "codeActions"
    /\ weights = << <<>>, <<>>, <<>> >>
    /\ Len(solutions) >= 1

\* the solutions of the fact that relocate, in the order of the solution list
RelocatingSolutions == SelectSeq(fact.solutions, isRelocation)

\* C6: one invocation of provideCodeActions returns at most one code action,
\* and that action is the one built from the first solution whose newIndex
\* differs from its oldIndex
C6_AtMostOneAction ==
    pc = "codeActions" =>
        /\ Len(codeActions) <= 1
        /\ Len(codeActions) = 1 =>
               /\ RelocatingSolutions # <<>>
               /\ codeActions[1].oldIndex = RelocatingSolutions[1].oldIndex
               /\ codeActions[1].newIndex = RelocatingSolutions[1].newIndex
               /\ codeActions[1].reason = buildReason(RelocatingSolutions[1])
               /\ codeActions[1].characterDifference = characterDifference
        /\ RelocatingSolutions = <<>> => codeActions = <<>>

\* C6 witness: the fact had a first solution that does not relocate and several
\* that do, and one code action was returned
C6_Witness ==
    /\ pc = "codeActions"
    /\ Len(fact.solutions) >= 3
    /\ ~isRelocation(fact.solutions[1])
    /\ Len(RelocatingSolutions) >= 2
    /\ Len(codeActions) = 1

(***************************************************************************)
(* The Text/Position Reconstructor: 4_astCommandExecutor.ts, and           *)
(* calculateLastPosition of utilities.                                     *)
(***************************************************************************)
RECURSIVE SplitUnits(_, _)
\* the StringNodes in units: a declaration's StringNode with the separators
\* before it, which it owns; rest is what follows the last declaration
SplitUnits(stringNodes, current) ==
    IF stringNodes = <<>> THEN [units |-> <<>>, rest |-> current]
    ELSE IF Head(stringNodes).topLevelNodeIndex = <<>>
    THEN SplitUnits(Tail(stringNodes), current \o <<Head(stringNodes)>>)
    ELSE LET after == SplitUnits(Tail(stringNodes), <<>>)
         IN [units |-> <<current \o <<Head(stringNodes)>> >> \o after.units,
             rest |-> after.rest]

\* moveStringNodes exchanging the declarations at oldIndex and newIndex
moveStringNodes_Exchange(oldIndex, newIndex, stringNodes) ==
    LET split == SplitUnits(stringNodes, <<>>)
        exchanged == [k \in 1..Len(split.units) |->
                          IF k = oldIndex + 1 THEN split.units[newIndex + 1]
                          ELSE IF k = newIndex + 1 THEN split.units[oldIndex + 1]
                          ELSE split.units[k]]
    IN Join(exchanged) \o split.rest

\* the StringNode sequence after the relocation of the declaration at oldIndex
\* to newIndex
moveStringNodes(oldIndex, newIndex, stringNodes) ==
    LET split == SplitUnits(stringNodes, <<>>)
    IN Join(moveElementInArray(split.units, oldIndex, newIndex)) \o split.rest

\* the offset at which the StringNode of declaration index starts
StartOffsetOf(stringNodes, index) ==
    LET at == CHOOSE k \in 1..Len(stringNodes) :
                  stringNodes[k].topLevelNodeIndex = <<index>>
    IN Len(Join(TextsOf(SubSeq(stringNodes, 1, at - 1))))

\* the <<line, character>> of an offset of a text
PositionOf(text, separator, offset) ==
    LET before == Slice(text, 0, offset)
        lengths == SplitLengths(before, separator)
    IN <<Len(lengths) - 1, lengths[Len(lengths)]>>

\* calculateLastPosition(text, separator): the <<line, character>> of its end
calculateLastPosition(text, separator) ==
    LET lengths == SplitLengths(text, separator)
    IN <<Len(lengths) - 1, lengths[Len(lengths)]>>

executeMoveTopLevelNodeAstCommandHelper(oldIndex, newIndex, difference, stringNodes, separator) ==
    LET moved == moveStringNodes(oldIndex, newIndex, stringNodes)
        text == Join(TextsOf(moved))
        position == PositionOf(text, separator,
                               StartOffsetOf(moved, oldIndex) + difference)
    IN [text |-> text, line |-> position[1], character |-> position[2]]

(***************************************************************************)
(* JobManager.executeJob (components/jobManager.ts) for a job that moves a *)
(* top-level node.                                                         *)
(***************************************************************************)
executeJob(jobOfHash, factOfHash, difference) ==
    IF jobOfHash.kind = "moveTopLevelNode" /\ factOfHash.kind = "moveTopLevelNode"
    THEN LET execution ==
                 executeMoveTopLevelNodeAstCommandHelper(
                     jobOfHash.oldIndex, jobOfHash.newIndex, difference,
                     factOfHash.stringNodes, factOfHash.separator)
             lastPosition == calculateLastPosition(execution.text, factOfHash.separator)
         IN [throws |-> FALSE,
             range |-> <<0, 0, lastPosition[1], lastPosition[2]>>,
             text |-> execution.text,
             position |-> <<execution.line, execution.character>>]
    ELSE [throws |-> TRUE, range |-> <<>>, text |-> <<>>, position |-> <<>>]

(***************************************************************************)
(* The intuita.moveTopLevelNode command (extension.ts): the job's output   *)
(* replaces its range in the text editors of the file.                     *)
(***************************************************************************)
\* the offset of a position in a text, the position adjusted to the text as
\* the editor validates it
offsetAt(text, separator, line, character) ==
    LET lengths == SplitLengths(text, separator)
    IN IF line >= Len(lengths) THEN Len(text)
       ELSE Sum(SubSeq(lengths, 1, line)) + line + Min(character, lengths[line + 1])

\* textEditorEdit.replace(range, text) on a document's text
replace(text, separator, range, replacement) ==
    Slice(text, 0, offsetAt(text, separator, range[1], range[2]))
    \o replacement
    \o SliceFrom(text, offsetAt(text, separator, range[3], range[4]))

MaxDeclarations == 3

\* a kind of declaration and a kind of statement that is none
MoveKinds == {"FunctionDeclaration", "ImportDeclaration"}

\* the parsed TypeScript files of at most MaxDeclarations statements
MoveSourceFiles ==
    LET statements == {s \in StatementsOf("ts") : s.kind \in MoveKinds /\ s.width < 3}
    IN UNION { [statements : [1..n -> statements], endTrivia : Trivias] :
               n \in 2..MaxDeclarations }

CharacterDifferences == 0..1

\* the fact the job manager keeps for the jobs of a file
MoveTopLevelNodeFact(built) ==
    [kind |-> "moveTopLevelNode", topLevelNodes |-> built.topLevelNodes,
     stringNodes |-> built.stringNodes, separator |-> NewLine]

\* the jobs of a fact: the relocations of one of its declarations
MoveTopLevelNodeJobs(built) ==
    { [kind |-> "moveTopLevelNode", oldIndex |-> oldIndex, newIndex |-> newIndex] :
      oldIndex \in 0..(Len(built.topLevelNodes) - 1),
      newIndex \in 0..(Len(built.topLevelNodes) - 1) }

ReconstructorInit ==
    /\ pc = "job"
    /\ fileName = "ts"
    /\ sourceFile \in MoveSourceFiles
    /\ fileText = TextOf(sourceFile)
    /\ fileLine = 0
    /\ fact = MoveTopLevelNodeFact(buildMoveTopLevelNodeFact(
                  [fileName |-> fileName, fileText |-> fileText, fileLine |-> fileLine],
                  sourceFile))
    /\ job \in {j \in MoveTopLevelNodeJobs(fact) : j.oldIndex # j.newIndex}
    /\ characterDifference \in CharacterDifferences
    /\ jobOutput = NoValue
    /\ StoresEmpty
    /\ nodes = <<>>
    /\ weights = << <<>>, <<>>, <<>> >>
    /\ coefficient = NoValue
    /\ solutions = NoValue
    /\ codeActions = NoValue

\* jobManager.executeJob(jobHash, characterDifference)
ExecuteJob ==
    /\ pc = "job"
    /\ jobOutput' = executeJob(job, fact, characterDifference)
    /\ pc' = "jobOutput"
    /\ UNCHANGED <<extractorVars, advisorVars, characterDifference, job, storeVars>>

\* the text editor of the file replaces the range of the output by its text
ChangeTextEditor ==
    /\ pc = "jobOutput"
    /\ ~jobOutput.throws
    /\ fileText' = replace(fileText, fact.separator, jobOutput.range, jobOutput.text)
    /\ pc' = "changed"
    /\ UNCHANGED <<fileName, fileLine, sourceFile, fact, advisorVars, jobVars, storeVars>>

ReconstructorNext == ExecuteJob \/ ChangeTextEditor

SpecReconstructor == ReconstructorInit /\ [][ReconstructorNext]_vars

\* list with element inserted after its first k elements
InsertAt(list, k, element) ==
    SubSeq(list, 1, k) \o <<element>> \o SubSeq(list, k + 1, Len(list))

\* the index in the StringNode sequence of the declaration the job moves
MovedAt ==
    CHOOSE k \in 1..Len(fact.stringNodes) :
        fact.stringNodes[k].topLevelNodeIndex = <<job.oldIndex>>

\* the StringNodes of the fact but the moved declaration's and the separator
\* before it, in their order
OtherStringNodes ==
    SubSeq(fact.stringNodes, 1, MovedAt - 2)
    \o SubSeq(fact.stringNodes, MovedAt + 1, Len(fact.stringNodes))

\* C7: the text of a relocation is the concatenation of the StringNodes of the
\* fact, each once and unchanged, in an order that keeps the relative order of
\* all of them but the moved declaration's (its own and the separator before it)
C7_RelocationKeepsStringNodes ==
    pc = "jobOutput" /\ ~jobOutput.throws =>
        \E k \in 0..Len(OtherStringNodes), l \in 0..(Len(OtherStringNodes) + 1) :
            \E first \in {MovedAt - 1, MovedAt} :
                LET second == IF first = MovedAt THEN MovedAt - 1 ELSE MovedAt
                    order == InsertAt(InsertAt(OtherStringNodes, k,
                                               fact.stringNodes[first]),
                                      l, fact.stringNodes[second])
                IN jobOutput.text = Join(TextsOf(order))

\* a first declaration of three is relocated behind the last, which changes the text
C7_Witness ==
    /\ pc = "jobOutput"
    /\ ~jobOutput.throws
    /\ Len(fact.topLevelNodes) = 3
    /\ job.oldIndex = 0
    /\ job.newIndex = 2
    /\ jobOutput.text # fileText
    /\ jobOutput.text = Join(TextsOf(moveStringNodes(0, 2, fact.stringNodes)))

\* C8: the range of the output of executeJob starts at line 0, column 0 and
\* ends at the last line and no earlier than the last column of the current
\* text of the file, and replacing that range by the output's text leaves the
\* output's text as the text of the file
C8_RangeSpansDocument ==
    /\ pc = "jobOutput" /\ ~jobOutput.throws =>
           LET last == calculateLastPosition(fileText, fact.separator)
           IN /\ jobOutput.range[1] = 0
              /\ jobOutput.range[2] = 0
              /\ jobOutput.range[3] = last[1]
              /\ jobOutput.range[4] >= last[2]
    /\ pc = "changed" => fileText = jobOutput.text

(***************************************************************************)
(* Claims about the identifiers of the declarations of a fact.             *)
(***************************************************************************)
\* C11: for every declaration of a fact, of a TypeScript or a Java file, no
\* identifier is both in its childIdentifiers and in its identifiers
C11_ChildIdentifiersDisjoint ==
    pc = "fact" =>
        \A k \in 1..Len(fact.topLevelNodes) :
            fact.topLevelNodes[k].childIdentifiers
                \cap fact.topLevelNodes[k].identifiers = {}

(***************************************************************************)
(* LeftRightHashSetManager (leftRightHashes/leftRightHashSetManager.ts).   *)
(* A hash is a text; _set is the list of its elements in insertion order.  *)
(***************************************************************************)
\* Set.prototype.add
SetAdd(set, element) ==
    IF element \in Elements(set) THEN set ELSE Append(set, element)

\* Set.prototype.delete
SetDelete(set, element) == SelectSeq(set, LAMBDA e : e # element)

\* String.prototype.startsWith and endsWith
startsWith(text, prefix) ==
    Len(prefix) <= Len(text) /\ SubSeq(text, 1, Len(prefix)) = prefix

endsWith(text, suffix) ==
    /\ Len(suffix) <= Len(text)
    /\ SubSeq(text, Len(text) - Len(suffix) + 1, Len(text)) = suffix

buildLeftRightHash(leftHash, rightHash) == leftHash \o rightHash

\* the text from the middle on: slice(length / 2) truncates a fractional start
RightHalf(leftRightHash) == SliceFrom(leftRightHash, Len(leftRightHash) \div 2)

\* slice(0, length / 2)
LeftHalf(leftRightHash) == Slice(leftRightHash, 0, Len(leftRightHash) \div 2)

\* the elements whose right half is one of the hashes; set.add finds none of
\* them in the new set, which keeps their order
buildByRightHashes(set, rightHashes) ==
    SelectSeq(set, LAMBDA e : RightHalf(e) \in rightHashes)

getLeftHashes(set) == {LeftHalf(set[k]) : k \in 1..Len(set)}

getRightHashes(set) == {RightHalf(set[k]) : k \in 1..Len(set)}

RECURSIVE getRightHashesByLeftHash(_, _)
getRightHashesByLeftHash(set, leftHash) ==
    IF set = <<>> THEN <<>>
    ELSE IF ~startsWith(Head(set), leftHash)
    THEN getRightHashesByLeftHash(Tail(set), leftHash)
    ELSE <<SliceFrom(Head(set), Len(leftHash))>>
         \o getRightHashesByLeftHash(Tail(set), leftHash)

\* upsert that adds the hash without looking for it in the set
upsert_Append(set, leftHash, rightHash) ==
    Append(set, buildLeftRightHash(leftHash, rightHash))

upsert(set, leftHash, rightHash) ==
    SetAdd(set, buildLeftRightHash(leftHash, rightHash))

delete(set, leftHash, rightHash) ==
    SetDelete(set, buildLeftRightHash(leftHash, rightHash))

deleteRightHash(set, rightHash) ==
    SelectSeq(set, LAMBDA e : ~endsWith(e, rightHash))

\* hashes of one length, and hashes of several lengths
FixedLengthHashes ==
    [left |-> {<<"a", "b">>, <<"b", "c">>, <<"c", "a">>},
     right |-> {<<"a", "b">>, <<"b", "c">>}]

AnyLengthHashes ==
    [left |-> {<<"a">>, <<"a", "b">>, <<"b">>},
     right |-> {<<"b", "c">>, <<"c">>}]

\* no run of the advisor or of a job is under way
AdvisorIdle ==
    /\ fileName = "ts"
    /\ fileText = <<>>
    /\ fileLine = 0
    /\ sourceFile = [statements |-> <<>>, endTrivia |-> <<>>]
    /\ fact = NoValue
    /\ nodes = <<>>
    /\ weights = << <<>>, <<>>, <<>> >>
    /\ coefficient = NoValue
    /\ solutions = NoValue
    /\ codeActions = NoValue
    /\ characterDifference = 0
    /\ job = NoValue
    /\ jobOutput = NoValue

HashSetInit ==
    /\ pc = "hashes"
    /\ AdvisorIdle
    /\ ManagerIdle
    /\ ServicesIdle
    /\ leftRightHashSet = <<>>
    /\ storedPairs = {}
    /\ hashKinds \in {FixedLengthHashes, AnyLengthHashes}

Upsert(leftHash, rightHash) ==
    /\ leftRightHashSet' = upsert(leftRightHashSet, leftHash, rightHash)
    /\ storedPairs' = storedPairs \cup {<<leftHash, rightHash>>}
    /\ UNCHANGED <<pc, extractorVars, advisorVars, jobVars, hashKinds, managerVars,
                   serviceVars, editorVars>>

Delete(leftHash, rightHash) ==
    /\ leftRightHashSet' = delete(leftRightHashSet, leftHash, rightHash)
    /\ storedPairs' = storedPairs \ {<<leftHash, rightHash>>}
    /\ UNCHANGED <<pc, extractorVars, advisorVars, jobVars, hashKinds, managerVars,
                   serviceVars, editorVars>>

DeleteRightHash(rightHash) ==
    /\ leftRightHashSet' = deleteRightHash(leftRightHashSet, rightHash)
    /\ storedPairs' = {pair \in storedPairs : pair[2] # rightHash}
    /\ UNCHANGED <<pc, extractorVars, advisorVars, jobVars, hashKinds, managerVars,
                   serviceVars, editorVars>>

HashSetNext ==
    \/ \E leftHash \in hashKinds.left, rightHash \in hashKinds.right :
           \/ Upsert(leftHash, rightHash)
           \/ Delete(leftHash, rightHash)
    \/ \E rightHash \in hashKinds.right : DeleteRightHash(rightHash)

SpecHashSet == HashSetInit /\ [][HashSetNext]_vars

\* all hashes in use have one length
FixedLength ==
    \A h, g \in hashKinds.left \cup hashKinds.right : Len(h) = Len(g)

\* C17: with hashes of one length, getRightHashesByLeftHash(l) is the right
\* hashes of the stored pairs with left hash l, each once, and
\* buildByRightHashes(S).getLeftHashes() is the left hashes of the stored pairs
\* with a right hash in S; a step that leaves the stored pairs as they are (an
\* upsert of a stored pair) leaves the set as it is
C17_Lookups ==
    /\ [](FixedLength =>
            /\ \A l \in hashKinds.left :
                   LET found == getRightHashesByLeftHash(leftRightHashSet, l)
                   IN /\ Elements(found) = {pair[2] : pair \in
                             {stored \in storedPairs : stored[1] = l}}
                      /\ Len(found) = Cardinality(Elements(found))
            /\ \A S \in SUBSET hashKinds.right :
                   getLeftHashes(buildByRightHashes(leftRightHashSet, S))
                       = {pair[1] : pair \in
                             {stored \in storedPairs : stored[2] \in S}})
    /\ [][FixedLength /\ storedPairs' = storedPairs =>
              leftRightHashSet' = leftRightHashSet]_vars

\* C17 witness: two pairs with one left hash and a pair with another are stored
C17_Witness ==
    /\ FixedLength
    /\ Cardinality(storedPairs) = 3
    /\ Len(getRightHashesByLeftHash(leftRightHashSet, <<"a", "b">>)) = 2
    /\ getLeftHashes(buildByRightHashes(leftRightHashSet, {<<"b", "c">>}))
           = {<<"a", "b">>, <<"c", "a">>}

\* C18: for any left and right hashes, the set holds the hashes of the pairs
\* that were upserted and neither deleted by delete(l, r) with their l and r nor
\* by deleteRightHash(r) with their r, and of no other pair
C18_DeleteRemovesOnlyItsPairs ==
    Elements(leftRightHashSet)
        = {buildLeftRightHash(pair[1], pair[2]) : pair \in storedPairs}

(***************************************************************************)
(* Claims about the code actions of solutions.                             *)
(***************************************************************************)
InRange(solution) == solution.newIndex \in 0..(Len(solution.nodes) - 1)

Reductions(solution) ==
    LET before == calculateCoefficient(solution.nodes)
    IN [dependency |-> Minus(before.dependencyCoefficient,
                             solution.coefficient.dependencyCoefficient),
        similarity |-> Minus(before.similarityCoefficient,
                             solution.coefficient.similarityCoefficient),
        kind |-> Minus(before.kindCoefficient, solution.coefficient.kindCoefficient)]

\* C20: the reason of the code action of a solution of the search names the
\* coefficient that the relocation lowers more than the two others
C20_ReasonNamesMostReduced ==
    (pc = "codeActions" /\ Len(codeActions) = 1 /\ fact.solutions = solutions) =>
        LET reduced == Reductions(solutions[1])
            reason == codeActions[1].reason
        IN /\ (/\ Less(reduced.similarity, reduced.dependency)
               /\ Less(reduced.kind, reduced.dependency)) =>
                  reason = "more ordered dependencies"
           /\ (/\ Less(reduced.dependency, reduced.similarity)
               /\ Less(reduced.kind, reduced.similarity)) =>
                  reason = "more name similarity"
           /\ (/\ Less(reduced.dependency, reduced.kind)
               /\ Less(reduced.similarity, reduced.kind)) =>
                  reason = "more same-type blocks"

(***************************************************************************)
(* The documents of the workspace that the JobManager is told about.  A    *)
(* document text is made of line breaks and of runs of one letter; a run   *)
(* is a statement, of the kind that its letter stands for.                 *)
(***************************************************************************)
\* the statement a letter stands for: A a class a that uses b, B a function
\* b, any other letter an import
ShapeOfLetter(letter) ==
    CASE letter = "A" ->
           [kind |-> "ClassDeclaration", name |-> << <<"a">> >>, declarationNames |-> <<>>,
            identifierTokens |-> << <<"a">>, <<"b">> >>, hasStop |-> TRUE]
      [] letter = "B" ->
           [kind |-> "FunctionDeclaration", name |-> << <<"b">> >>,
            declarationNames |-> <<>>,
            identifierTokens |-> << <<"b">> >>, hasStop |-> TRUE]
      [] OTHER ->
           [kind |-> "ImportDeclaration", name |-> <<>>, declarationNames |-> <<>>,
            identifierTokens |-> << <<"c">> >>, hasStop |-> TRUE]

\* the length of the run of one letter that starts at the 1-based position i
RECURSIVE RunLength(_, _)
RunLength(text, i) ==
    IF i < Len(text) /\ text[i + 1] = text[i] THEN 1 + RunLength(text, i + 1) ELSE 1

\* the statements of the text from position i on, behind the trivia read so far
RECURSIVE ParseFrom(_, _, _)
ParseFrom(text, i, trivia) ==
    IF i > Len(text) THEN [statements |-> <<>>, endTrivia |-> trivia]
    ELSE IF text[i] = NewLine THEN ParseFrom(text, i + 1, Append(trivia, NewLine))
    ELSE LET shape == ShapeOfLetter(text[i])
             width == RunLength(text, i)
             rest == ParseFrom(text, i + width, <<>>)
         IN [statements |->
                 << [kind |-> shape.kind, name |-> shape.name,
                     declarationNames |-> shape.declarationNames,
                     identifierTokens |-> shape.identifierTokens,
                     hasStop |-> shape.hasStop, trivia |-> trivia,
                     width |-> width] >> \o rest.statements,
             endTrivia |-> rest.endTrivia]

\* ts.createSourceFile of a document text
createSourceFile(text) == ParseFrom(text, 1, <<>>)

\* the fact of a document: buildMoveTopLevelNodeFact of 2_factBuilders, which
\* has the solutions under the weights of the configuration and the separator
buildDocumentFact(userCommand) ==
    LET built == buildMoveTopLevelNodeFact(
                     [fileName |-> "ts", fileText |-> userCommand.fileText,
                      fileLine |-> 0],
                     createSourceFile(userCommand.fileText))
    IN [kind |-> "moveTopLevelNode",
        topLevelNodes |-> built.topLevelNodes,
        stringNodes |-> built.stringNodes,
        separator |-> NewLine,
        solutions |-> getSolutions(built.topLevelNodes, userCommand.options)]

\* hashes are texts; a number in a hash is its digit
Digits == <<"0", "1", "2", "3", "4", "5", "6", "7", "8", "9">>

Digit(n) == IF n \in 0..9 THEN Digits[n + 1] ELSE "n"

buildFileNameHash(name) == <<"file", name>>

\* the hash of a job that moves a top-level node: of the file name and of the
\* ids of the declarations of the file
buildMoveTopLevelNodeJobHash(name, topLevelNodes) ==
    <<"move", name>> \o Join([k \in 1..Len(topLevelNodes) |-> topLevelNodes[k].id])

buildRepairCodeJobHash(name, range) ==
    <<"repair", name>> \o [k \in 1..Len(range) |-> Digit(range[k])]

\* buildMoveTopLevelNodeJobs: the job of the top-ranked solution of the fact,
\* unless its hash was rejected
buildMoveTopLevelNodeJobs(userCommand, documentFact, rejected) ==
    LET hash == buildMoveTopLevelNodeJobHash(userCommand.fileName,
                                             documentFact.topLevelNodes)
        first == Slice(documentFact.solutions, 0, 1)
    IN IF first = <<>> \/ hash \in rejected THEN <<>>
       ELSE LET moved == documentFact.topLevelNodes[first[1].oldIndex + 1]
                from == PositionOf(userCommand.fileText, NewLine, moved.start)
                to == PositionOf(userCommand.fileText, NewLine, moved.end + 1)
            IN << [kind |-> "moveTopLevelNode",
                   fileName |-> userCommand.fileName,
                   hash |-> hash,
                   range |-> <<from[1], from[2], to[1], to[2]>>,
                   oldIndex |-> first[1].oldIndex,
                   newIndex |-> first[1].newIndex] >>

(***************************************************************************)
(* The JobManager (components/jobManager.ts).  A Map is a function on its  *)
(* keys; the handlers are operators on the record of the manager's fields. *)
(***************************************************************************)
MapGet(map, key) == IF key \in DOMAIN map THEN <<map[key]>> ELSE <<>>

MapSet(map, key, value) ==
    [k \in DOMAIN map \cup {key} |-> IF k = key THEN value ELSE map[k]]

MapDelete(map, key) == [k \in DOMAIN map \ {key} |-> map[k]]

\* map.get(key) ?? new Set()
SetOf(map, key) == IF key \in DOMAIN map THEN map[key] ELSE {}

RECURSIVE MapSetAll(_, _, _)
\* keys.forEach((key) => map.set(key, value))
MapSetAll(map, keys, value) ==
    IF keys = {} THEN map
    ELSE LET key == CHOOSE k \in keys : TRUE
         IN MapSetAll(MapSet(map, key, value), keys \ {key}, value)

\* the fields of the manager
Manager ==
    [fileNames |-> fileNames, factMap |-> factMap,
     moveTopLevelBlockHashMap |-> moveTopLevelBlockHashMap,
     repairCodeHashMap |-> repairCodeHashMap,
     rejectedJobHashes |-> rejectedJobHashes, jobMap |-> jobMap,
     published |-> published]

buildJobUri(jobOfUri) == <<"jobs", jobOfUri.fileName>> \o jobOfUri.hash

buildFileUri(name) == <<"files", name>>

getJob(manager, jobHash) == MapGet(manager.jobMap, jobHash)

getFileNameFromJobHash(manager, jobHash) ==
    IF jobHash \in DOMAIN manager.jobMap
    THEN <<manager.jobMap[jobHash].fileName>> ELSE <<>>

\* getFileJobs without the look at the rejected job hashes
getFileJobs_Unfiltered(manager, fileNameHash) ==
    LET set1 == SetOf(manager.moveTopLevelBlockHashMap, fileNameHash)
        set2 == SetOf(manager.repairCodeHashMap, fileNameHash)
    IN {manager.jobMap[jobHash] :
        jobHash \in {h \in set1 \cup set2 : h \in DOMAIN manager.jobMap}}

\* getFileJobs: the jobs of the hashes of both maps that are not rejected and
\* are in the job map
getFileJobs(manager, fileNameHash) ==
    LET set1 == SetOf(manager.moveTopLevelBlockHashMap, fileNameHash)
        set2 == SetOf(manager.repairCodeHashMap, fileNameHash)
    IN {manager.jobMap[jobHash] :
        jobHash \in {h \in set1 \cup set2 :
                         h \notin manager.rejectedJobHashes
                         /\ h \in DOMAIN manager.jobMap}}

getCodeActionJobs(manager, name, position) ==
    {jobOfFile \in getFileJobs(manager, buildFileNameHash(name)) :
         /\ jobOfFile.range[1] <= position[1]
         /\ jobOfFile.range[3] >= position[1]
         /\ jobOfFile.range[2] <= position[2]
         /\ jobOfFile.range[4] >= position[2]}

\* rejectJob: failed tells that an assertion threw, which leaves the manager
\* as it was and publishes nothing
rejectJob(manager, jobHash) ==
    LET jobOfHash == getJob(manager, jobHash)
        holders == {h \in DOMAIN manager.moveTopLevelBlockHashMap :
                        jobHash \in manager.moveTopLevelBlockHashMap[h]}
        repairHolders == {h \in DOMAIN manager.repairCodeHashMap :
                              jobHash \in manager.repairCodeHashMap[h]}
    IN IF jobOfHash = <<>> \/ holders \cup repairHolders = {}
       THEN [failed |-> TRUE, manager |-> [manager EXCEPT !.published = <<>>]]
       ELSE LET inMove == holders # {}
                fileNameHash == IF inMove THEN CHOOSE h \in holders : TRUE
                                ELSE CHOOSE h \in repairHolders : TRUE
            IN IF fileNameHash \notin DOMAIN manager.fileNames
               THEN [failed |-> TRUE, manager |-> [manager EXCEPT !.published = <<>>]]
               ELSE [failed |-> FALSE,
                     manager |->
                       [manager EXCEPT
                          !.moveTopLevelBlockHashMap =
                              IF inMove
                              THEN MapSet(@, fileNameHash, @[fileNameHash] \ {jobHash})
                              ELSE @,
                          !.repairCodeHashMap =
                              IF inMove THEN @
                              ELSE MapSet(@, fileNameHash, @[fileNameHash] \ {jobHash}),
                          !.rejectedJobHashes = @ \cup {jobHash},
                          !.jobMap = MapDelete(@, jobHash),
                          !.published =
                              << [kind |-> "updateDiagnostics",
                                  fileName |-> manager.fileNames[fileNameHash]],
                                 [kind |-> "changePermissions",
                                  uri |-> buildJobUri(jobOfHash[1]),
                                  permissions |-> "Readonly"] >>]]

\* this._configurationContainer.get(): the three weights
ConfigurationOptions == <<1, 1, 1>>

\* the deleteFile messages for the old job hashes that are no new ones, in
\* an order of the hashes
RECURSIVE DeleteFileMessages(_, _)
DeleteFileMessages(name, jobHashes) ==
    IF jobHashes = {} THEN <<>>
    ELSE LET jobHash == CHOOSE h \in jobHashes : TRUE
         IN << [kind |-> "deleteFile",
                uri |-> buildJobUri([fileName |-> name, hash |-> jobHash])] >>
            \o DeleteFileMessages(name, jobHashes \ {jobHash})

\* the command that onFileTextChanged builds for a document
buildUserCommand(document) ==
    [kind |-> "MOVE_TOP_LEVEL_NODE", fileName |-> document.fileName,
     fileText |-> document.text, options |-> ConfigurationOptions]

\* the end of onFileTextChanged: the maps take the new jobs of the file and
\* their fact, and the messages are published
setMoveTopLevelNodeJobs(manager, document, documentFact, newJobs) ==
    LET fileNameHash == buildFileNameHash(document.fileName)
        oldJobHashes == SetOf(manager.moveTopLevelBlockHashMap, fileNameHash)
        newJobHashes ==
            {newJobs[k].hash : k \in 1..Len(newJobs)}
            \cup {jobHash \in oldJobHashes :
                      /\ jobHash \in DOMAIN manager.jobMap
                      /\ manager.jobMap[jobHash].kind = "repairCode"}
    IN [manager EXCEPT
          !.fileNames = MapSet(@, fileNameHash, document.fileName),
          !.factMap = MapSetAll(@, newJobHashes, documentFact),
          !.moveTopLevelBlockHashMap = MapSet(@, fileNameHash, newJobHashes),
          !.jobMap = IF newJobs = <<>> THEN @ ELSE MapSet(@, newJobs[1].hash, newJobs[1]),
          !.published =
              << [kind |-> "updateDiagnostics", fileName |-> document.fileName] >>
              \o DeleteFileMessages(document.fileName, oldJobHashes \ newJobHashes)
              \o (IF newJobs = <<>>
                  THEN << [kind |-> "deleteFile",
                           uri |-> buildFileUri(document.fileName)] >>
                  ELSE << [kind |-> "writeFile",
                           uri |-> buildFileUri(document.fileName),
                           content |-> document.text,
                           permissions |-> "Readonly"] >>)]

\* the jobs of the fact of the document, were the old job hashes of the file kept
buildJobsOfFact_KeepOld(manager, document, documentFact) ==
    [setMoveTopLevelNodeJobs(
         manager, document, documentFact,
         buildMoveTopLevelNodeJobs(buildUserCommand(document), documentFact,
                                   manager.rejectedJobHashes))
     EXCEPT !.moveTopLevelBlockHashMap =
         MapSet(@, buildFileNameHash(document.fileName),
                @[buildFileNameHash(document.fileName)]
                \cup SetOf(manager.moveTopLevelBlockHashMap,
                           buildFileNameHash(document.fileName)))]

\* the middle of onFileTextChanged: the jobs of the fact of the document
buildJobsOfFact(manager, document, documentFact) ==
    setMoveTopLevelNodeJobs(
        manager, document, documentFact,
        buildMoveTopLevelNodeJobs(buildUserCommand(document), documentFact,
                                  manager.rejectedJobHashes))

\* onFileTextChanged, were the repair-code job hashes of the file cleared by it
onFileTextChanged_DropRepair(manager, document) ==
    IF document.scheme # "file" THEN [manager EXCEPT !.published = <<>>]
    ELSE [buildJobsOfFact(manager, document,
                          buildDocumentFact(buildUserCommand(document)))
          EXCEPT !.repairCodeHashMap =
              MapSet(@, buildFileNameHash(document.fileName), {})]

onFileTextChanged(manager, document) ==
    IF document.scheme # "file" THEN [manager EXCEPT !.published = <<>>]
    ELSE buildJobsOfFact(manager, document,
                         buildDocumentFact(buildUserCommand(document)))

\* buildRepairCodeFact of a command
buildRepairCodeFact(command) ==
    [kind |-> "repairCode", fileName |-> command.fileName,
     fileText |-> command.fileText, range |-> command.range,
     replacement |-> command.replacement]

\* _onCreateRepairCodeJob, with the text of the document of the file
onCreateRepairCodeJob(manager, message, text) ==
    LET fileNameHash == buildFileNameHash(message.fileName)
        command == [fileName |-> message.fileName, fileText |-> text,
                    kind |-> "REPAIR_CODE", range |-> message.range,
                    replacement |-> message.replacement]
        jobHash == buildRepairCodeJobHash(message.fileName, message.range)
        oldJobHashes == SetOf(manager.repairCodeHashMap, fileNameHash)
        newJobHashes ==
            {h \in oldJobHashes :
                 ~(/\ h \in DOMAIN manager.jobMap
                   /\ manager.jobMap[h].kind = "repairCode"
                   /\ manager.jobMap[h].version # message.version)}
            \cup {jobHash}
    IN [manager EXCEPT
          !.fileNames = MapSet(@, fileNameHash, message.fileName),
          !.factMap = MapSet(@, jobHash, buildRepairCodeFact(command)),
          !.repairCodeHashMap = MapSet(@, fileNameHash, newJobHashes),
          !.jobMap = MapSet(@, jobHash,
                            [kind |-> "repairCode", fileName |-> message.fileName,
                             hash |-> jobHash, range |-> message.range,
                             replacement |-> message.replacement,
                             version |-> message.version]),
          !.published =
              << [kind |-> "updateDiagnostics", fileName |-> message.fileName] >>]

RECURSIVE MapDeleteAll(_, _)
MapDeleteAll(map, keys) ==
    IF keys = {} THEN map
    ELSE LET key == CHOOSE k \in keys : TRUE
         IN MapDeleteAll(MapDelete(map, key), keys \ {key})

onNoTypeScriptDiagnostics(manager, message) ==
    LET fileNameHash == buildFileNameHash(message.fileName)
        oldJobHashes == SetOf(manager.repairCodeHashMap, fileNameHash)
        \* the hashes of the jobs that are no repair-code jobs
        newJobHashes == {h \in oldJobHashes :
                             /\ h \in DOMAIN manager.jobMap
                             /\ manager.jobMap[h].kind # "repairCode"}
    IN IF oldJobHashes = {} THEN [manager EXCEPT !.published = <<>>]
       ELSE [manager EXCEPT
               !.factMap = MapDeleteAll(@, newJobHashes),
               !.jobMap = MapDeleteAll(@, newJobHashes),
               !.repairCodeHashMap = MapSet(@, fileNameHash, newJobHashes),
               !.published =
                   << [kind |-> "updateDiagnostics", fileName |-> message.fileName] >>]

(***************************************************************************)
(* The commands and the listeners of the extension (extension.ts) on the   *)
(* JobManager.                                                             *)
(***************************************************************************)
\* commandComponent.getJobOutput(jobHash): executeJob of the job of the hash;
\* an assertion throws when the manager has no job or no fact of it
getJobOutput(manager, jobHash, difference) ==
    IF jobHash \notin DOMAIN manager.jobMap \/ jobHash \notin DOMAIN manager.factMap
    THEN [throws |-> TRUE, range |-> <<>>, text |-> <<>>, position |-> <<>>]
    ELSE executeJob(manager.jobMap[jobHash], manager.factMap[jobHash], difference)

\* the events and commands of a run
MaxEvents == 3

DocumentNames == {"f", "g"}

\* the texts that the user gives a document
DocumentTexts ==
    { <<>>,
      <<"A", NewLine, "B", "B">>,
      <<"A", "A", NewLine, "B">> }

\* the range of a diagnostic: from a line into the next
RepairRanges == { <<0, 1, 1, 0>> }

RepairVersions == {1, 2}

ManagerInit ==
    /\ pc = "activated"
    /\ AdvisorIdle
    /\ ServicesIdle
    /\ leftRightHashSet = <<>>
    /\ storedPairs = {}
    /\ hashKinds = [left |-> {}, right |-> {}]
    /\ fileNames = <<>>
    /\ factMap = <<>>
    /\ moveTopLevelBlockHashMap = <<>>
    /\ repairCodeHashMap = <<>>
    /\ rejectedJobHashes = {}
    /\ jobMap = <<>>
    /\ published = <<>>
    /\ documents \in [DocumentNames -> [text : {<<>>}, visible : BOOLEAN]]
    /\ callbacks = {}
    /\ event = [handler |-> "none", fileName |-> "", jobHash |-> <<>>, failed |-> FALSE]
    /\ lastEventText = [name \in DocumentNames |-> <<>>]
    /\ handled = 0

\* the variables of the manager take the fields of a record of them
SetManager(manager) ==
    /\ fileNames' = manager.fileNames
    /\ factMap' = manager.factMap
    /\ moveTopLevelBlockHashMap' = manager.moveTopLevelBlockHashMap
    /\ repairCodeHashMap' = manager.repairCodeHashMap
    /\ rejectedJobHashes' = manager.rejectedJobHashes
    /\ jobMap' = manager.jobMap
    /\ published' = manager.published

DocumentOf(name, text) == [fileName |-> name, scheme |-> "file", text |-> text]

\* the last event was a text change of the document of the name
InBurst(name) == event.handler = "onFileTextChanged" /\ event.fileName = name

\* onDidChangeTextDocument: the user has given the document of a file a text
\* and the listener calls onFileTextChanged at once.  The event counts the text changes of the
\* document that came one after the other, and the reruns they set off: a
\* rerun publishes updateDiagnostics.
ChangeTextDocument(name, text) ==
    /\ documents' = [documents EXCEPT ![name].text = text]
    /\ SetManager(onFileTextChanged(Manager, DocumentOf(name, text)))
    /\ lastEventText' = [lastEventText EXCEPT ![name] = <<text>>]
    /\ event' = [handler |-> "onFileTextChanged", fileName |-> name,
                 jobHash |-> <<>>, failed |-> FALSE,
                 burst |-> IF InBurst(name) THEN event.burst + 1 ELSE 1,
                 reruns |-> (IF InBurst(name) THEN event.reruns ELSE 0)
                            + (IF published' # <<>> THEN 1 ELSE 0)]
    /\ pc' = "onFileTextChanged"
    /\ UNCHANGED <<extractorVars, advisorVars, jobVars, hashVars, serviceVars, callbacks>>

\* onDidChangeTextDocument for a document that is no file
ChangeVirtualDocument ==
    /\ SetManager(onFileTextChanged(Manager,
                      [fileName |-> "jobs", scheme |-> "intuita", text |-> <<>>]))
    /\ event' = [handler |-> "onFileTextChanged", fileName |-> "",
                 jobHash |-> <<>>, failed |-> FALSE]
    /\ pc' = "onFileTextChanged"
    /\ UNCHANGED <<extractorVars, advisorVars, jobVars, hashVars, serviceVars, documents, callbacks,
                   lastEventText>>

\* the intuita.rejectJob command
RejectJob(jobHash) ==
    /\ SetManager(rejectJob(Manager, jobHash).manager)
    /\ event' = [handler |-> "rejectJob", fileName |-> "", jobHash |-> jobHash,
                 failed |-> rejectJob(Manager, jobHash).failed]
    /\ pc' = "rejectJob"
    /\ UNCHANGED <<extractorVars, advisorVars, jobVars, hashVars, serviceVars, documents, callbacks,
                   lastEventText>>

\* a createRepairCodeJob message of the message bus
CreateRepairCodeJob(name, range, version) ==
    /\ SetManager(onCreateRepairCodeJob(
                      Manager,
                      [fileName |-> name, range |-> range, version |-> version,
                       replacement |-> <<"R">>],
                      documents[name].text))
    /\ event' = [handler |-> "createRepairCodeJob", fileName |-> name,
                 jobHash |-> buildRepairCodeJobHash(name, range), failed |-> FALSE]
    /\ pc' = "createRepairCodeJob"
    /\ UNCHANGED <<extractorVars, advisorVars, jobVars, hashVars, serviceVars, documents, callbacks,
                   lastEventText>>

\* a noTypeScriptDiagnostics message of the message bus
NoTypeScriptDiagnostics(name) ==
    /\ SetManager(onNoTypeScriptDiagnostics(Manager, [fileName |-> name]))
    /\ event' = [handler |-> "noTypeScriptDiagnostics", fileName |-> name,
                 jobHash |-> <<>>, failed |-> FALSE]
    /\ pc' = "noTypeScriptDiagnostics"
    /\ UNCHANGED <<extractorVars, advisorVars, jobVars, hashVars, serviceVars, documents, callbacks,
                   lastEventText>>

\* the job hashes a command can be given: those the manager has had
KnownJobHashes == DOMAIN jobMap \cup DOMAIN factMap \cup rejectedJobHashes

\* the job's file has another text than the one its fact was built from, and
\* the manager does not list the job any more
IsStale(jobHash) ==
    /\ jobHash \in DOMAIN jobMap
    /\ jobHash \in DOMAIN factMap
    /\ factMap[jobHash].kind = "moveTopLevelNode"
    /\ Join(TextsOf(factMap[jobHash].stringNodes))
           # documents[jobMap[jobHash].fileName].text
    /\ jobHash \notin
           {listed.hash : listed \in
               getFileJobs(Manager, buildFileNameHash(jobMap[jobHash].fileName))}

\* the text of a document after an editor replaced the range of a job output
changeTextEditor(text, result) == replace(text, NewLine, result.range, result.text)

\* intuita.moveTopLevelNode once it has the file name and the job output.  The
\* editors that show the file replace the range by the text and the command
\* waits for them; when none shows it, the document is shown and the
\* replacement is left to run after the command.  The command ends with
\* onFileTextChanged of the document.
moveTopLevelNode(name, result, text) ==
    /\ documents' = [documents EXCEPT ![name].text = text]
    /\ callbacks' =
           IF documents[name].visible THEN callbacks
           ELSE callbacks \cup {[fileName |-> name, range |-> result.range,
                                 text |-> result.text]}
    /\ SetManager(onFileTextChanged(Manager, DocumentOf(name, text)))
    /\ lastEventText' = [lastEventText EXCEPT ![name] = <<text>>]

\* the command with its file name and job output, which it asserts
runMoveTopLevelNode(jobHash, name, result) ==
    IF name = <<>> \/ result.throws
    THEN /\ event' = [handler |-> "acceptJob", fileName |-> "",
                      jobHash |-> jobHash, failed |-> TRUE,
                      stale |-> IsStale(jobHash), output |-> <<>>]
         /\ SetManager([Manager EXCEPT !.published = <<>>])
         /\ UNCHANGED <<documents, callbacks, lastEventText>>
    ELSE /\ event' = [handler |-> "acceptJob", fileName |-> name[1],
                      jobHash |-> jobHash, failed |-> FALSE,
                      stale |-> IsStale(jobHash), output |-> <<result>>]
         /\ moveTopLevelNode(name[1], result,
                             IF documents[name[1]].visible
                             THEN changeTextEditor(documents[name[1]].text, result)
                             ELSE documents[name[1]].text)

\* the intuita.acceptJob command: intuita.moveTopLevelNode with the job hash
\* and the character difference 0
AcceptJob(jobHash) ==
    /\ jobHash \in DOMAIN jobMap => jobMap[jobHash].kind = "moveTopLevelNode"
    /\ runMoveTopLevelNode(jobHash, getFileNameFromJobHash(Manager, jobHash),
                           getJobOutput(Manager, jobHash, 0))
    /\ pc' = "acceptJob"
    /\ UNCHANGED <<extractorVars, advisorVars, jobVars, hashVars, serviceVars>>

\* showTextDocument(textDocument).then(changeTextEditor) of a command that has
\* ended: the document is shown, its editor replaces the range by the text, and
\* the listener hears of the change
RunCallback(callback) ==
    /\ callbacks' = callbacks \ {callback}
    /\ documents' = [documents EXCEPT ![callback.fileName] =
                         [text |-> changeTextEditor(@.text, callback),
                          visible |-> TRUE]]
    /\ SetManager(onFileTextChanged(
                      Manager,
                      DocumentOf(callback.fileName,
                                 changeTextEditor(documents[callback.fileName].text,
                                                  callback))))
    /\ lastEventText' =
           [lastEventText EXCEPT ![callback.fileName] =
                <<changeTextEditor(documents[callback.fileName].text, callback)>>]
    /\ event' = [handler |-> "changeTextEditor", fileName |-> callback.fileName,
                 jobHash |-> <<>>, failed |-> FALSE]
    /\ pc' = "changeTextEditor"
    /\ UNCHANGED <<extractorVars, advisorVars, jobVars, hashVars, serviceVars>>

\* one more event or command is handled
Handle ==
    /\ handled < MaxEvents
    /\ handled' = handled + 1

ManagerNext ==
    \/ \E name \in DocumentNames, text \in DocumentTexts :
           Handle /\ ChangeTextDocument(name, text)
    \/ Handle /\ ChangeVirtualDocument
    \/ \E jobHash \in KnownJobHashes : Handle /\ RejectJob(jobHash)
    \/ \E name \in DocumentNames, range \in RepairRanges, version \in RepairVersions :
           Handle /\ CreateRepairCodeJob(name, range, version)
    \/ \E name \in DocumentNames : Handle /\ NoTypeScriptDiagnostics(name)
    \/ \E jobHash \in KnownJobHashes : Handle /\ AcceptJob(jobHash)
    \/ \E callback \in callbacks : Handle /\ RunCallback(callback)

SpecManager == ManagerInit /\ [][ManagerNext]_vars

(***************************************************************************)
(* The jobs that the manager lists.                                        *)
(***************************************************************************)
\* the handlers that end with onFileTextChanged
TextChangeHandlers == {"onFileTextChanged", "acceptJob", "changeTextEditor"}

\* the hashes of the jobs that getFileJobs returns for a file
ListedJobHashes(manager, name) ==
    {listed.hash : listed \in getFileJobs(manager, buildFileNameHash(name))}

RepairCodeJobs(manager, name) ==
    {listed \in getFileJobs(manager, buildFileNameHash(name)) :
         listed.kind = "repairCode"}

MoveTopLevelNodeJobsOf(manager, name) ==
    {listed \in getFileJobs(manager, buildFileNameHash(name)) :
         listed.kind = "moveTopLevelNode"}

\* C12: a step that runs onFileTextChanged keeps every repair-code job that
\* getFileJobs returned for a file before it among the jobs returned after it
C12_RepairJobsKept ==
    [][pc' \in TextChangeHandlers =>
           \A name \in DocumentNames :
               RepairCodeJobs(Manager, name)
                   \subseteq getFileJobs(Manager', buildFileNameHash(name))]_vars

\* onFileTextChanged has run for a file that has a repair-code job, and has
\* listed a move job beside it
C12_Witness ==
    /\ pc = "onFileTextChanged"
    /\ event.fileName = "f"
    /\ RepairCodeJobs(Manager, "f") # {}
    /\ MoveTopLevelNodeJobsOf(Manager, "f") # {}

\* the positions that code actions are asked for
CodeActionPositions == {<<0, 0>>, <<0, 1>>, <<1, 0>>}

\* C13: a rejectJob that succeeds rejects its job hash; a rejected job hash
\* stays rejected, and neither getFileJobs nor getCodeActionJobs returns a job
\* of a rejected hash whatever events follow; rejectJob publishes no writeFile
C13_RejectedStaysRejected ==
    /\ [][(pc' = "rejectJob" /\ ~event'.failed) =>
              event'.jobHash \in rejectedJobHashes']_vars
    /\ [][rejectedJobHashes \subseteq rejectedJobHashes']_vars
    /\ [](\A name \in DocumentNames :
              /\ ListedJobHashes(Manager, name) \cap rejectedJobHashes = {}
              /\ \A position \in CodeActionPositions :
                     \A listed \in getCodeActionJobs(Manager, name, position) :
                         listed.hash \notin rejectedJobHashes)
    /\ [](pc = "rejectJob" =>
              \A k \in 1..Len(published) : published[k].kind # "writeFile")

\* a repair-code job was rejected and a later createRepairCodeJob has put a job
\* of its hash into the maps again
C13_Witness ==
    /\ pc = "createRepairCodeJob"
    /\ event.jobHash \in rejectedJobHashes
    /\ event.jobHash \in DOMAIN jobMap
    /\ event.jobHash \in SetOf(repairCodeHashMap, buildFileNameHash(event.fileName))

\* C14: when the accept command ends without error, the document of the job's
\* file has the text with the job's range replaced by the job's text
C14_AcceptAppliesText ==
    [][(pc' = "acceptJob" /\ ~event'.failed) =>
           documents'[event'.fileName].text =
               changeTextEditor(documents[event'.fileName].text,
                                event'.output[1])]_vars

\* C15: executing a stale job fails, and so does accepting one
C15_StaleJobFails ==
    /\ \A jobHash \in KnownJobHashes :
           IsStale(jobHash) => getJobOutput(Manager, jobHash, 0).throws
    /\ (pc = "acceptJob" /\ event.stale) => event.failed

\* the jobs that are computed from a text of a file
ComputedJobs(name, text) ==
    Elements(buildMoveTopLevelNodeJobs(
                 buildUserCommand(DocumentOf(name, text)),
                 buildDocumentFact(buildUserCommand(DocumentOf(name, text))),
                 {}))

HeldJobHashes(name) ==
    SetOf(moveTopLevelBlockHashMap, buildFileNameHash(name))
        \cup SetOf(repairCodeHashMap, buildFileNameHash(name))

\* C25: every job of the job map is held for its file, and every fact of the
\* fact map belongs to a job hash that is held for some file
C25_StoredJobsAreListed ==
    /\ \A jobHash \in DOMAIN jobMap :
           jobHash \in HeldJobHashes(jobMap[jobHash].fileName)
    /\ \A jobHash \in DOMAIN factMap :
           \E name \in DocumentNames : jobHash \in HeldJobHashes(name)

\* a position is at or after the start of a range and at or before its end,
\* by line first and by column second
ContainsPosition(range, position) ==
    /\ \/ range[1] < position[1]
       \/ range[1] = position[1] /\ range[2] <= position[2]
    /\ \/ position[1] < range[3]
       \/ position[1] = range[3] /\ position[2] <= range[4]

\* C28: getCodeActionJobs returns the jobs that getFileJobs lists for the file
\* whose range contains the position in document order
C28_JobsAtPosition ==
    \A name \in DocumentNames, position \in CodeActionPositions :
        getCodeActionJobs(Manager, name, position) =
            {listed \in getFileJobs(Manager, buildFileNameHash(name)) :
                 ContainsPosition(listed.range, position)}

\* the 0-based line of the character at a 0-based offset of a text
LineOfOffset(text, offset) ==
    Cardinality({k \in 1..Min(offset, Len(text)) : text[k] = NewLine})

\* the 0-based indexes of the declarations whose span has a part on the line
DeclarationsOnLine(text, topLevelNodes, line) ==
    {i - 1 : i \in {k \in 1..Len(topLevelNodes) :
                        /\ LineOfOffset(text, topLevelNodes[k].start) <= line
                        /\ line <= LineOfOffset(text, topLevelNodes[k].end)}}

\* C29: when the cursor line is inside a declaration, the selected index is
\* that of a declaration whose span contains the line; it is -1 only when the
\* line is inside no declaration
C29_SelectedContainsCursor ==
    (pc = "fact" /\ ~fact.raised) =>
        LET inside == DeclarationsOnLine(fileText, fact.topLevelNodes, fileLine)
        IN /\ inside # {} => fact.selectedTopLevelNodeIndex \in inside
           /\ fact.selectedTopLevelNodeIndex = -1 => inside = {}

\* C21: text changes of one document that come one after the other set off
\* fewer reruns than there are changes
C21_BurstDebounced ==
    (pc = "onFileTextChanged" /\ event.fileName # "" /\ event.burst >= 2) =>
        event.reruns < event.burst

(***************************************************************************)
(* EngineService (components/noraNodeEngineService.ts): the child process  *)
(* of the engine.  A handler of an executablesBootstrapped message runs    *)
(* up to its first await at once and goes on when the awaited promise      *)
(* settles.                                                                *)
(***************************************************************************)
\* the executablesBootstrapped messages of a run
MaxMessages == 3

\* the variables that the services leave alone
ServicesFrame == <<pc, extractorVars, advisorVars, jobVars, hashVars, managerVars, editorVars, viewVars>>

EngineInit ==
    /\ pc = "engine"
    /\ AdvisorIdle
    /\ StoresEmpty

\* #onExecutablesBootstrappedMessage up to the first createDirectory: it
\* returns when a child process is set or no workspace folder is open
ExecutablesBootstrapped(hasWorkspaceFolder) ==
    /\ engine.received < MaxMessages
    /\ engine' =
           [engine EXCEPT
              !.received = @ + 1,
              !.handlers =
                  IF engine.childProcess # <<>> \/ ~hasWorkspaceFolder THEN @
                  ELSE @ \cup {[id |-> engine.received + 1, at |-> "storageUri"]}]
    /\ UNCHANGED <<ServicesFrame, nora, jobManager, persistence>>

\* await this.fileSystem.createDirectory(storageUri) has settled
CreateStorageDirectory(handler, created) ==
    /\ handler \in engine.handlers
    /\ handler.at = "storageUri"
    /\ engine' =
           [engine EXCEPT
              !.handlers =
                  (@ \ {handler})
                  \cup (IF created THEN {[id |-> handler.id, at |-> "outputUri"]}
                        ELSE {})]
    /\ UNCHANGED <<ServicesFrame, nora, jobManager, persistence>>

\* await this.fileSystem.createDirectory(outputUri) has settled: the handler
\* spawns the process and sets #childProcess
CreateOutputDirectory(handler, created) ==
    /\ handler \in engine.handlers
    /\ handler.at = "outputUri"
    /\ engine' =
           [engine EXCEPT
              !.handlers = @ \ {handler},
              !.childProcess = IF created THEN <<handler.id>> ELSE @,
              !.processes = IF created THEN @ \cup {handler.id} ELSE @]
    /\ UNCHANGED <<ServicesFrame, nora, jobManager, persistence>>

\* the output of a process has closed: interfase.on('close')
CloseEngine(process) ==
    /\ process \in engine.processes
    /\ engine' = [engine EXCEPT !.processes = @ \ {process}, !.childProcess = <<>>]
    /\ UNCHANGED <<ServicesFrame, nora, jobManager, persistence>>

EngineNext ==
    \/ \E hasWorkspaceFolder \in BOOLEAN : ExecutablesBootstrapped(hasWorkspaceFolder)
    \/ \E handler \in engine.handlers, created \in BOOLEAN :
           CreateStorageDirectory(handler, created)
    \/ \E handler \in engine.handlers, created \in BOOLEAN :
           CreateOutputDirectory(handler, created)
    \/ \E process \in engine.processes : CloseEngine(process)

SpecEngine == EngineInit /\ [][EngineNext]_vars

\* C22: at most one engine child process runs at any time
C22_OneChildProcess == Cardinality(engine.processes) <= 1

(***************************************************************************)
(* NoraNodeEngineService.buildRepairCodeJobs: the lines of the output of   *)
(* the engine, their handlers and the close handler.                       *)
(***************************************************************************)
\* the lines of an output of the engine
MaxLines == 3

\* the messages of the engine: a change (k = 1) of a file, or the finish (k = 2)
EngineMessages ==
    {[k |-> 1, p |-> uri, r |-> <<0, 1>>, t |-> "t"] : uri \in {"u", "v"}}
    \cup {[k |-> 2, p |-> "", r |-> <<>>, t |-> ""]}

EngineOutputs == UNION {[1..n -> EngineMessages] : n \in 0..MaxLines}

\* buildRepairCodeJob(file, null, replacementEnvelope)
buildRepairCodeJob(file, replacementEnvelope) ==
    [kind |-> "repairCode", uri |-> file, range |-> replacementEnvelope.range,
     replacement |-> replacementEnvelope.replacement]

\* the end of the line handler of a change: the job is built and pushed
pushRepairCodeJob(service, message) ==
    [service EXCEPT
       !.uriHashFileMap = @ \cup {message.p},
       !.nextJsLinkJobs =
           Append(@, buildRepairCodeJob(
                         message.p,
                         [range |-> [start |-> message.r[1], end |-> message.r[2]],
                          replacement |-> message.t]))]

\* the cases of the close handler: one case with the hashes of the jobs, or none
buildCasesWithJobHashes(jobs) ==
    IF jobs = <<>> THEN <<>>
    ELSE <<[kind |-> "repairCodeByPolyglotPiranha", subKind |-> "nextJsLink",
            jobHashes |-> Elements(jobs)]>>

NoraInit ==
    /\ pc = "nora"
    /\ AdvisorIdle
    /\ leftRightHashSet = <<>>
    /\ storedPairs = {}
    /\ hashKinds = [left |-> {}, right |-> {}]
    /\ ManagerIdle
    /\ EngineIdle
    /\ JobManagerIdle
    /\ PersistenceIdle
    /\ ViewsIdle
    /\ \E output \in EngineOutputs :
           nora = [input |-> output, read |-> 0, closed |-> FALSE, awaiting |-> {},
                   uriHashFileMap |-> {}, nextJsLinkJobs |-> <<>>,
                   published |-> <<>>]

\* i.on('line'): the handler of the next line runs up to its first await.  A
\* change of a file that the map has pushes its job at once; for another file
\* the handler awaits workspace.openTextDocument.
ReadLine ==
    /\ nora.read < Len(nora.input)
    /\ LET message == nora.input[nora.read + 1]
           service == [nora EXCEPT !.read = @ + 1]
       IN nora' =
              IF message.k # 1 THEN service
              ELSE IF message.p \in nora.uriHashFileMap
              THEN pushRepairCodeJob(service, message)
              ELSE [service EXCEPT
                      !.awaiting = @ \cup {[line |-> nora.read + 1,
                                            message |-> message]}]
    /\ UNCHANGED <<ServicesFrame, engine, jobManager, persistence>>

\* await workspace.openTextDocument(uri) has resolved: the handler sets the
\* file of the uri and pushes its job
OpenTextDocument(handler) ==
    /\ handler \in nora.awaiting
    /\ nora' = pushRepairCodeJob([nora EXCEPT !.awaiting = @ \ {handler}],
                                 handler.message)
    /\ UNCHANGED <<ServicesFrame, engine, jobManager, persistence>>

\* i.on('close'), after the last line: upsertCases is published with the jobs
\* that have been pushed and the set of their hashes
CloseOutput ==
    /\ nora.read = Len(nora.input)
    /\ ~nora.closed
    /\ nora' =
           [nora EXCEPT
              !.closed = TRUE,
              !.published =
                  Append(@, [kind |-> "upsertCases",
                             casesWithJobHashes |-> buildCasesWithJobHashes(nora.nextJsLinkJobs),
                             jobs |-> nora.nextJsLinkJobs])]
    /\ UNCHANGED <<ServicesFrame, engine, jobManager, persistence>>

NoraNext ==
    \/ ReadLine
    \/ \E handler \in nora.awaiting : OpenTextDocument(handler)
    \/ CloseOutput

SpecNora == NoraInit /\ [][NoraNext]_vars

\* the change messages among the first lines of an output
ChangesRead(output, read) == {line \in 1..read : output[line].k = 1}

\* C24: once the output has closed, one upsertCases message is published and
\* it has a job for every change message that was read
C24_EveryChangeHasJob ==
    nora.closed =>
        /\ Len(nora.published) = 1
        /\ Len(nora.published[1].jobs)
               = Cardinality(ChangesRead(nora.input, nora.read))

(***************************************************************************)
(* The jobs of the later extension and their persisted form.               *)
(***************************************************************************)
\* JobKind
rewriteFile == 1
createFile == 2
deleteFile == 3
moveFile == 4
moveAndRewriteFile == 5
copyFile == 6

\* a Uri of vscode, and the Uris of the workspace files and of the staged content
BuildUri(path) == [scheme |-> <<"f">>, path |-> <<"/", path>>]

FileUris == {BuildUri("a"), BuildUri("b")}

ContentUris == {BuildUri("x"), BuildUri("y")}

\* a value or null
Nullable(values) == {<<>>} \cup {<<value>> : value \in values}

\* Uri.prototype.toString: the scheme, a colon and the path
UriToString(uri) == uri.scheme \o <<":">> \o uri.path

\* the place of the first colon of a text, or 0
FirstColon(text) ==
    IF \E k \in 1..Len(text) : text[k] = ":"
    THEN CHOOSE k \in 1..Len(text) : text[k] = ":" /\ \A i \in 1..(k - 1) : text[i] # ":"
    ELSE 0

\* Uri.parse: the scheme is the text before the first colon
UriParse(text) ==
    IF FirstColon(text) = 0 THEN [scheme |-> <<>>, path |-> text]
    ELSE [scheme |-> SubSeq(text, 1, FirstColon(text) - 1),
          path |-> SliceFrom(text, FirstColon(text))]

\* uri?.toString() ?? null
ToPersistedUri(uri) == IF uri = <<>> THEN <<>> ELSE <<UriToString(uri[1])>>

\* text ? Uri.parse(text) : null, where null and the empty text are falsy
ToUri(test, text) ==
    IF test = <<>> \/ test = <<<<>>>> THEN <<>> ELSE <<UriParse(text[1])>>

mapJobToPersistedJob(j) ==
    [j EXCEPT !.oldUri = ToPersistedUri(j.oldUri),
              !.newUri = ToPersistedUri(j.newUri),
              !.oldContentUri = ToPersistedUri(j.oldContentUri),
              !.newContentUri = ToPersistedUri(j.newContentUri)]

mapPersistedJobToJob(persistedJob) ==
    [persistedJob EXCEPT
       !.oldUri = ToUri(persistedJob.oldUri, persistedJob.oldUri),
       !.newUri = ToUri(persistedJob.newUri, persistedJob.newUri),
       !.oldContentUri = ToUri(persistedJob.oldContentUri, persistedJob.oldContentUri),
       !.newContentUri = ToUri(persistedJob.oldContentUri, persistedJob.oldContentUri)]

\* the jobs that are persisted
PersistableJobs ==
    [hash : {<<"j", "1">>}, kind : {rewriteFile, moveAndRewriteFile},
     oldUri : Nullable(FileUris), newUri : Nullable(FileUris),
     oldContentUri : Nullable(ContentUris), newContentUri : Nullable(ContentUris),
     codemodSetName : {"set"}, codemodName : {"name"}, createdAt : {0},
     executionId : {"e"}]

PersistenceInit ==
    /\ pc = "persistence"
    /\ AdvisorIdle
    /\ leftRightHashSet = <<>>
    /\ storedPairs = {}
    /\ hashKinds = [left |-> {}, right |-> {}]
    /\ ManagerIdle
    /\ EngineIdle
    /\ NoraIdle
    /\ JobManagerIdle
    /\ ViewsIdle
    /\ \E j \in PersistableJobs :
           persistence = [job |-> <<j>>, persistedJob |-> <<>>, mapped |-> <<>>]

PersistJob ==
    /\ persistence.persistedJob = <<>>
    /\ persistence' =
           [persistence EXCEPT !.persistedJob = <<mapJobToPersistedJob(persistence.job[1])>>]
    /\ UNCHANGED <<ServicesFrame, engine, nora, jobManager>>

RestoreJob ==
    /\ persistence.persistedJob # <<>>
    /\ persistence.mapped = <<>>
    /\ persistence' =
           [persistence EXCEPT !.mapped = <<mapPersistedJobToJob(persistence.persistedJob[1])>>]
    /\ UNCHANGED <<ServicesFrame, engine, nora, jobManager>>

PersistenceNext == PersistJob \/ RestoreJob

SpecPersistence == PersistenceInit /\ [][PersistenceNext]_vars

\* C27: the job mapped back from the persisted form of a job equals the job
C27_RoundTrip ==
    persistence.mapped # <<>> => persistence.mapped[1] = persistence.job[1]

(***************************************************************************)
(* The JobManager of the jobs by URI: the job map and the index of the     *)
(* pairs of a URI hash and a job hash.                                     *)
(***************************************************************************)
\* the requests that a run of the manager handles
MaxRequests == 2

\* buildUriHash: a hash of the length of a job hash, one for every URI
buildUriHash(uri) == <<"u", uri.path[2]>>

BuildJob(hash, kind, oldUri, newUri, newContentUri, codemodName) ==
    [hash |-> <<"j", hash>>, kind |-> kind, oldUri |-> oldUri, newUri |-> newUri,
     oldContentUri |-> <<>>, newContentUri |-> newContentUri,
     codemodSetName |-> "set", codemodName |-> codemodName, createdAt |-> 0,
     executionId |-> "e"]

\* the jobs of the engine: two rewrites of one file, a move of it, a deletion
EngineJobs ==
    {BuildJob("1", rewriteFile, <<BuildUri("a")>>, <<>>, <<BuildUri("x")>>, "m"),
     BuildJob("2", rewriteFile, <<BuildUri("a")>>, <<>>, <<BuildUri("y")>>, "n"),
     BuildJob("3", moveFile, <<BuildUri("a")>>, <<BuildUri("b")>>, <<BuildUri("x")>>, "m"),
     BuildJob("4", deleteFile, <<BuildUri("b")>>, <<>>, <<>>, "n")}

EngineJobHashes == {j.hash : j \in EngineJobs}

\* the lists of one or two of the jobs, and the sets of one or two job hashes
JobLists ==
    {<<j>> : j \in EngineJobs}
    \cup {pair \in EngineJobs \X EngineJobs : pair[1] # pair[2]}

JobHashSets == {S \in SUBSET EngineJobHashes : Cardinality(S) \in 1..2}

\* the hashes of the URIs of a job
UriHashesOf(j) ==
    {buildUriHash(uri[1]) : uri \in {j.oldUri, j.newUri} \ {<<>>}}

\* only job.oldUri is put under the hash of the job
upsertJobUris_OldUriOnly(set, j) ==
    IF j.oldUri = <<>> THEN set ELSE upsert(set, buildUriHash(j.oldUri[1]), j.hash)

\* job.oldUri and job.newUri are put under the hash of the job, in this order
upsertJobUris(set, j) ==
    LET withOld == IF j.oldUri = <<>> THEN set
                   ELSE upsert(set, buildUriHash(j.oldUri[1]), j.hash)
    IN IF j.newUri = <<>> THEN withOld
       ELSE upsert(withOld, buildUriHash(j.newUri[1]), j.hash)

RECURSIVE upsertJobs(_, _)
\* for (const job of message.jobs)
upsertJobs(manager, jobs) ==
    IF jobs = <<>> THEN manager
    ELSE upsertJobs(
             [manager EXCEPT
                !.jobMap = MapSet(@, Head(jobs).hash, Head(jobs)),
                !.uriHashJobHashSet = upsertJobUris(@, Head(jobs))],
             Tail(jobs))

\* deleteJobs that leaves the index as it is
deleteJobs_KeepIndex(manager, jobHashes) ==
    [manager EXCEPT !.jobMap = MapDeleteAll(@, jobHashes)]

RECURSIVE deleteJobs(_, _)
\* deleteRightHash(jobHash) and #jobMap.delete(jobHash) for every hash
deleteJobs(manager, jobHashes) ==
    IF jobHashes = {} THEN manager
    ELSE LET jobHash == CHOOSE h \in jobHashes : TRUE
         IN deleteJobs(
                [manager EXCEPT
                   !.jobMap = MapDelete(@, jobHash),
                   !.uriHashJobHashSet = deleteRightHash(@, jobHash)],
                jobHashes \ {jobHash})

\* new JobManager(jobs, [], messageBus, fileService)
buildJobManager(jobs) ==
    upsertJobs([jobMap |-> <<>>, uriHashJobHashSet |-> <<>>, accepting |-> {},
                operations |-> {}, published |-> {}, handled |-> 0],
               jobs)

getUriFileJobs(manager, uriHash) ==
    {manager.jobMap[h] :
        h \in Elements(getRightHashesByLeftHash(manager.uriHashJobHashSet, uriHash))
              \cap DOMAIN manager.jobMap}

onUpsertJobsMessage(manager, message) ==
    [upsertJobs(deleteJobs(manager, message.inactiveJobHashes), message.jobs)
       EXCEPT !.published = {[kind |-> "updateElements"]}]

\* #buildCodemodObjects and the message of every codemod
CodemodMessages(manager, jobHashes, kind) ==
    {[kind |-> kind,
      deletedJobHashes |->
          {h \in jobHashes \cap DOMAIN manager.jobMap :
              manager.jobMap[h].codemodName = manager.jobMap[g].codemodName},
      codemodSetName |-> manager.jobMap[g].codemodSetName,
      codemodName |-> manager.jobMap[g].codemodName] :
        g \in jobHashes \cap DOMAIN manager.jobMap}

\* #getUriHashesWithJobHashes
getUriHashesWithJobHashes(manager, jobHashes) ==
    LET set == buildByRightHashes(manager.uriHashJobHashSet, jobHashes)
    IN {[uriHash |-> uriHash,
         jobHashes |-> getRightHashesByLeftHash(set, uriHash)] :
           uriHash \in getLeftHashes(set)}

\* the first of the hashes that has a job
FirstJob(manager, hashes) ==
    LET found == SelectSeq(hashes, LAMBDA h : h \in DOMAIN manager.jobMap)
    IN IF found = <<>> THEN <<>> ELSE <<manager.jobMap[found[1]]>>

\* what is pushed to the job outputs for the job of a URI hash
JobOutputsOf(uriHash, j) ==
    (IF j.kind \in {createFile, copyFile} /\ j.newUri # <<>> /\ j.newContentUri # <<>>
     THEN {[operation |-> "createFile", uriHash |-> uriHash, jobHash |-> j.hash]}
     ELSE {})
    \cup (IF j.kind = deleteFile /\ j.oldUri # <<>>
          THEN {[operation |-> "deleteFiles", uriHash |-> uriHash, jobHash |-> j.hash]}
          ELSE {})
    \cup (IF /\ j.kind \in {moveAndRewriteFile, moveFile}
             /\ j.oldUri # <<>> /\ j.newUri # <<>> /\ j.newContentUri # <<>>
          THEN {[operation |-> "moveFile", uriHash |-> uriHash, jobHash |-> j.hash]}
          ELSE {})
    \cup (IF j.kind = rewriteFile /\ j.oldUri # <<>> /\ j.newContentUri # <<>>
          THEN {[operation |-> "updateFile", uriHash |-> uriHash, jobHash |-> j.hash]}
          ELSE {})

\* the outputs that acceptJobs collects before its first await
buildJobOutputs(manager, jobHashes) ==
    UNION {IF FirstJob(manager, entry.jobHashes) = <<>> THEN {}
           ELSE JobOutputsOf(entry.uriHash, FirstJob(manager, entry.jobHashes)[1]) :
             entry \in getUriHashesWithJobHashes(manager, jobHashes)}

\* acceptJobs up to its first await
startAcceptJobs(manager, jobHashes) ==
    [manager EXCEPT
       !.accepting =
           @ \cup {[id |-> manager.handled + 1,
                    jobHashes |-> jobHashes,
                    existing |-> jobHashes \cap DOMAIN manager.jobMap,
                    messages |-> {[kind |-> "updateElements"]}
                                 \cup CodemodMessages(manager, jobHashes, "jobsAccepted"),
                    outputs |-> buildJobOutputs(manager, jobHashes)]},
       !.operations = {},
       !.published = {}]

\* acceptJobs after the calls of the file service
finishAcceptJobs(manager, accept) ==
    [deleteJobs(manager, accept.jobHashes) EXCEPT
       !.accepting = @ \ {accept},
       !.operations = accept.outputs,
       !.published = accept.messages]

\* the deleteFiles messages of the rejected jobs
RejectedContentMessages(manager, jobHashes) ==
    {[kind |-> "deleteFiles", uris |-> {manager.jobMap[h].newContentUri[1]}] :
        h \in {g \in jobHashes \cap DOMAIN manager.jobMap :
                  /\ manager.jobMap[g].kind \in {rewriteFile, moveAndRewriteFile,
                                                 createFile, moveFile, copyFile}
                  /\ manager.jobMap[g].newContentUri # <<>>}}

onRejectJobsMessage(manager, message) ==
    [deleteJobs(manager, message.jobHashes) EXCEPT
       !.operations = {},
       !.published = CodemodMessages(manager, message.jobHashes, "jobsRejected")
                     \cup RejectedContentMessages(manager, message.jobHashes)
                     \cup {[kind |-> "updateElements"]}]

onClearStateMessage(manager) ==
    [manager EXCEPT
       !.jobMap = <<>>,
       !.uriHashJobHashSet = <<>>,
       !.operations = {},
       !.published =
           {[kind |-> "deleteFiles",
             uris |-> {manager.jobMap[h].newContentUri[1] :
                          h \in {g \in DOMAIN manager.jobMap :
                                    /\ manager.jobMap[g].kind
                                           \in {rewriteFile, moveAndRewriteFile}
                                    /\ manager.jobMap[g].newContentUri # <<>>}}]}]

JobManagerInit ==
    /\ pc = "jobManager"
    /\ AdvisorIdle
    /\ leftRightHashSet = <<>>
    /\ storedPairs = {}
    /\ hashKinds = [left |-> {}, right |-> {}]
    /\ ManagerIdle
    /\ EngineIdle
    /\ NoraIdle
    /\ PersistenceIdle
    /\ ViewsIdle
    /\ \E jobs \in {<<>>} \cup JobLists : jobManager = buildJobManager(jobs)

\* a request is handled: the bound of a run
Request(manager) == [manager EXCEPT !.handled = @ + 1]

UpsertJobs(jobs, inactiveJobHashes) ==
    /\ jobManager.handled < MaxRequests
    /\ jobManager' =
           Request(onUpsertJobsMessage(
                       jobManager,
                       [jobs |-> jobs, inactiveJobHashes |-> inactiveJobHashes]))
    /\ pc' = "upsertJobs"
    /\ UNCHANGED <<extractorVars, advisorVars, jobVars, hashVars, managerVars,
                   editorVars, engine, nora, persistence, viewVars>>

AcceptJobs(jobHashes) ==
    /\ jobManager.handled < MaxRequests
    /\ jobManager' = Request(startAcceptJobs(jobManager, jobHashes))
    /\ pc' = "acceptJobs"
    /\ UNCHANGED <<extractorVars, advisorVars, jobVars, hashVars, managerVars,
                   editorVars, engine, nora, persistence, viewVars>>

AcceptJobsResolves(accept) ==
    /\ accept \in jobManager.accepting
    /\ jobManager' = finishAcceptJobs(jobManager, accept)
    /\ pc' = "acceptJobs resolved"
    /\ UNCHANGED <<extractorVars, advisorVars, jobVars, hashVars, managerVars,
                   editorVars, engine, nora, persistence, viewVars>>

RejectJobs(jobHashes) ==
    /\ jobManager.handled < MaxRequests
    /\ jobManager' = Request(onRejectJobsMessage(jobManager, [jobHashes |-> jobHashes]))
    /\ pc' = "rejectJobs"
    /\ UNCHANGED <<extractorVars, advisorVars, jobVars, hashVars, managerVars,
                   editorVars, engine, nora, persistence, viewVars>>

ClearState ==
    /\ jobManager.handled < MaxRequests
    /\ jobManager' = Request(onClearStateMessage(jobManager))
    /\ pc' = "clearState"
    /\ UNCHANGED <<extractorVars, advisorVars, jobVars, hashVars, managerVars,
                   editorVars, engine, nora, persistence, viewVars>>

JobManagerNext ==
    \/ \E jobs \in JobLists, inactiveJobHashes \in {{}} \cup JobHashSets :
           UpsertJobs(jobs, inactiveJobHashes)
    \/ \E jobHashes \in JobHashSets : AcceptJobs(jobHashes)
    \/ \E accept \in jobManager.accepting : AcceptJobsResolves(accept)
    \/ \E jobHashes \in JobHashSets : RejectJobs(jobHashes)
    \/ ClearState

SpecJobManager == JobManagerInit /\ [][JobManagerNext]_vars

\* the pairs of the index, and the pairs of the URI hashes of the stored jobs
IndexPairs(manager) ==
    {<<LeftHalf(e), RightHalf(e)>> : e \in Elements(manager.uriHashJobHashSet)}

JobPairs(manager) ==
    UNION {{<<uriHash, h>> : uriHash \in UriHashesOf(manager.jobMap[h])} :
              h \in DOMAIN manager.jobMap}

UriHashes == {buildUriHash(uri) : uri \in FileUris}

\* the jobs and the index entries of the hashes outside a set are as before
OthersKept(before, after, jobHashes) ==
    /\ DOMAIN after.jobMap = DOMAIN before.jobMap \ jobHashes
    /\ \A h \in DOMAIN after.jobMap : after.jobMap[h] = before.jobMap[h]
    /\ IndexPairs(after) = {pair \in IndexPairs(before) : pair[2] \notin jobHashes}

\* C23: when acceptJobs(S) resolves, the file service has done one operation
\* for every job of S that the manager held at the call
C23_OneOperationPerJob ==
    [][\A accept \in jobManager.accepting :
          (pc' = "acceptJobs resolved"
           /\ jobManager' = finishAcceptJobs(jobManager, accept))
          => \A h \in accept.existing :
                 Cardinality({o \in jobManager'.operations : o.jobHash = h}) = 1]_vars

\* C26: the index holds the pair of a URI hash and a job hash exactly when the
\* job is stored and the URI is its old or its new URI, and getFileJobs of a
\* URI hash returns the stored jobs of that URI
C26_IndexMatchesJobs ==
    /\ IndexPairs(jobManager) = JobPairs(jobManager)
    /\ \A uriHash \in UriHashes :
           getUriFileJobs(jobManager, uriHash)
               = {jobManager.jobMap[h] :
                     h \in {g \in DOMAIN jobManager.jobMap :
                               uriHash \in UriHashesOf(jobManager.jobMap[g])}}

\* a job of two URIs is stored beside another job after an accept has resolved
C26_Witness ==
    /\ pc = "acceptJobs resolved"
    /\ Cardinality(DOMAIN jobManager.jobMap) >= 2
    /\ \E h \in DOMAIN jobManager.jobMap : jobManager.jobMap[h].newUri # <<>>

\* C30: when acceptJobs(S) resolves or rejectJobs(S) is handled, no job of S is
\* left in the job map or in the index and the other jobs and their index
\* entries are as before; rejectJobs calls no operation of the file service
\* and only asks for the deletion of the staged content of the rejected jobs
C30_OnlyTheJobsOfS ==
    [][/\ \A accept \in jobManager.accepting :
             (pc' = "acceptJobs resolved"
              /\ jobManager' = finishAcceptJobs(jobManager, accept))
             => OthersKept(jobManager, jobManager', accept.jobHashes)
       /\ \A jobHashes \in JobHashSets :
             (pc' = "rejectJobs"
              /\ jobManager' = Request(onRejectJobsMessage(
                                           jobManager, [jobHashes |-> jobHashes])))
             => /\ OthersKept(jobManager, jobManager', jobHashes)
                /\ jobManager'.operations = {}
                /\ \A message \in jobManager'.published :
                       /\ message.kind \in {"jobsRejected", "deleteFiles", "updateElements"}
                       /\ message.kind = "deleteFiles" =>
                              \E h \in jobHashes \cap DOMAIN jobManager.jobMap :
                                  /\ jobManager.jobMap[h].newContentUri # <<>>
                                  /\ message.uris
                                         = {jobManager.jobMap[h].newContentUri[1]}]_vars

\* a rejection has left another job stored and asked for a deletion
C30_Witness ==
    /\ pc = "rejectJobs"
    /\ jobManager.jobMap # <<>>
    /\ \E message \in jobManager.published : message.kind = "deleteFiles"

(***************************************************************************)
(* The diagnostics that the extension publishes for the jobs of a file.    *)
(***************************************************************************)
\* the jobs of one publication
MaxJobs == 3

\* the state outside the views
ViewFrame == <<extractorVars, advisorVars, jobVars, hashVars, managerVars, editorVars, engine, nora, jobManager, persistence>>

DiagnosticFiles == {"f", "g", "h"}

\* the jobs as _setDiagnosticEntry reads them: kind, title and range
DiagnosticJobs ==
    {[kind |-> "moveTopLevelNode", title |-> "move", range |-> <<0, 0, 0, 1>>],
     [kind |-> "repairCode", title |-> "repair", range |-> <<0, 0, 0, 1>>],
     [kind |-> "repairCode", title |-> "repair", range |-> <<1, 0, 1, 1>>]}

JobsOfPublication == UNION {[1..n -> DiagnosticJobs] : n \in 0..MaxJobs}

\* new Diagnostic(range, title, DiagnosticSeverity.Information) with its code
buildDiagnostic(j) ==
    [range |-> [start |-> <<j.range[1], j.range[2]>>, end |-> <<j.range[3], j.range[4]>>],
     message |-> j.title, severity |-> "Information", code |-> j.kind]

\* diagnosticCollection.clear(); diagnosticCollection.set(uri, diagnostics)
setDiagnosticEntry(collection, name, jobs) ==
    MapSet(<<>>, name, [k \in 1..Len(jobs) |-> buildDiagnostic(jobs[k])])

DiagnosticsInit ==
    /\ pc = "diagnostics"
    /\ AdvisorIdle
    /\ StoresEmpty

SetDiagnosticEntry(name, jobs) ==
    /\ diagnosticCollection' = setDiagnosticEntry(diagnosticCollection, name, jobs)
    /\ pc' = "_setDiagnosticEntry"
    /\ UNCHANGED <<ViewFrame, workspaceState, treeView, applySelected, intuitaPanel>>

DiagnosticsNext ==
    \E name \in DiagnosticFiles, jobs \in JobsOfPublication : SetDiagnosticEntry(name, jobs)

SpecDiagnostics == DiagnosticsInit /\ [][DiagnosticsNext]_vars

\* diagnosticCollection.get(uri): the diagnostics of a file, none if it has no entry
DiagnosticsOf(collection, name) ==
    IF name \in DOMAIN collection THEN collection[name] ELSE <<>>

\* C31: publishing the diagnostics of a file leaves the diagnostics of every
\* other file as they were
C31_OtherFilesKept ==
    [][\A name \in DiagnosticFiles, jobs \in JobsOfPublication :
          diagnosticCollection' = setDiagnosticEntry(diagnosticCollection, name, jobs)
          => \A other \in DiagnosticFiles \ {name} :
                 DiagnosticsOf(diagnosticCollection', other)
                     = DiagnosticsOf(diagnosticCollection, other)]_vars

(***************************************************************************)
(* WorkspaceState: the recent codemod hashes kept in the memento.          *)
(***************************************************************************)
\* the calls of setRecentCodemodHashes in a run
MaxCalls == 4

CodemodHashes == {<<"a">>, <<"b">>, <<"c">>, <<"d">>}

Quote == "\""

RECURSIVE StringifyStrings(_)
\* the elements of a JSON array of strings: each in quotes, with commas between
StringifyStrings(texts) ==
    IF texts = <<>> THEN <<>>
    ELSE <<Quote>> \o Head(texts) \o <<Quote>>
         \o (IF Tail(texts) = <<>> THEN <<>> ELSE <<",">>)
         \o StringifyStrings(Tail(texts))

\* JSON.stringify of an array of strings
JSONStringify(texts) == <<"[">> \o StringifyStrings(texts) \o <<"]">>

\* the place of the first quote of a text, or 0
FirstQuote(text) ==
    IF \E k \in 1..Len(text) : text[k] = Quote
    THEN CHOOSE k \in 1..Len(text) : text[k] = Quote /\ \A i \in 1..(k - 1) : text[i] # Quote
    ELSE 0

RECURSIVE ParseStrings(_)
\* the strings of a JSON array of strings: the texts between two quotes
ParseStrings(text) ==
    IF FirstQuote(text) = 0 THEN <<>>
    ELSE LET rest == SliceFrom(text, FirstQuote(text))
         IN <<Slice(rest, 0, FirstQuote(rest) - 1)>>
            \o ParseStrings(SliceFrom(rest, FirstQuote(rest)))

\* JSON.parse and the decoding as a readonly array of strings
JSONParse(text) == ParseStrings(text)

\* Array.prototype.slice(-3)
SliceLast3(list) == SubSeq(list, Max(1, Len(list) - 2), Len(list))

getRecentCodemodHashes(state) ==
    IF state.memento = <<>> THEN <<>> ELSE JSONParse(state.memento[1])

\* setRecentCodemodHashes that does not filter the hash out of the stored ones
setRecentCodemodHashes_NoFilter(state, codemodHash) ==
    IF state.memento = <<>>
    THEN [state EXCEPT !.memento = <<JSONStringify(<<codemodHash>>)>>]
    ELSE [state EXCEPT
            !.memento = <<JSONStringify(SliceLast3(
                              Append(JSONParse(state.memento[1]), codemodHash)))>>]

setRecentCodemodHashes(state, codemodHash) ==
    IF state.memento = <<>>
    THEN [state EXCEPT !.memento = <<JSONStringify(<<codemodHash>>)>>]
    ELSE [state EXCEPT
            !.memento =
                <<JSONStringify(SliceLast3(
                      Append(SelectSeq(JSONParse(state.memento[1]),
                                       LAMBDA hash : hash # codemodHash),
                             codemodHash)))>>]

WorkspaceStateInit ==
    /\ pc = "workspaceState"
    /\ AdvisorIdle
    /\ StoresEmpty

\* a call of setRecentCodemodHashes; lastSet records the call that set a hash last
SetRecentCodemodHashes(codemodHash) ==
    /\ workspaceState.calls < MaxCalls
    /\ workspaceState' =
           [setRecentCodemodHashes(workspaceState, codemodHash) EXCEPT
              !.calls = @ + 1,
              !.lastSet = MapSet(@, codemodHash, workspaceState.calls + 1)]
    /\ pc' = "setRecentCodemodHashes"
    /\ UNCHANGED <<ViewFrame, diagnosticCollection, treeView, applySelected, intuitaPanel>>

WorkspaceStateNext == \E codemodHash \in CodemodHashes : SetRecentCodemodHashes(codemodHash)

SpecWorkspaceState == WorkspaceStateInit /\ [][WorkspaceStateNext]_vars

\* the hashes a list holds are those set last, from the least recent on
RecentlySet(recent, lastSet, calls) ==
    /\ Len(recent) <= 3
    /\ \A i \in 1..Len(recent) : recent[i] \in DOMAIN lastSet
    /\ \A i, k \in 1..Len(recent) : i < k => lastSet[recent[i]] < lastSet[recent[k]]
    /\ calls > 0 => recent # <<>> /\ lastSet[recent[Len(recent)]] = calls

\* C32: after any calls of setRecentCodemodHashes on an empty store,
\* getRecentCodemodHashes returns at most 3 hashes, none twice, from the least
\* to the most recently set, the last being the hash of the latest call
C32_RecentHashes ==
    RecentlySet(getRecentCodemodHashes(workspaceState), workspaceState.lastSet,
                workspaceState.calls)

\* four calls have set four hashes, and the hash set first has been pushed out
C32_Witness ==
    /\ workspaceState.calls = 4
    /\ Cardinality(DOMAIN workspaceState.lastSet) = 4
    /\ Len(getRecentCodemodHashes(workspaceState)) = 3

(***************************************************************************)
(* IntuitaPanel: the accessor of the instance and the panels it creates.   *)
(***************************************************************************)
\* the calls of getInstance in a run
MaxGetInstances == 6

\* new IntuitaPanel(...): window.createWebviewPanel creates one more panel
newIntuitaPanel(state) ==
    [state EXCEPT
       !.panels = @ \cup {[id |-> Len(state.returned) + 1, disposed |-> FALSE]},
       !.returned = Append(@, Len(state.returned) + 1)]

\* IntuitaPanel.getInstance: the instance of __instance if there is one, else a
\* new one; the constructor does not assign __instance
getInstance(state) ==
    IF state.instance # <<>>
    THEN [state EXCEPT !.returned = Append(@, state.instance[1])]
    ELSE newIntuitaPanel(state)

IntuitaPanelInit ==
    /\ pc = "intuitaPanel"
    /\ AdvisorIdle
    /\ StoresEmpty

GetInstance ==
    /\ Len(intuitaPanel.returned) < MaxGetInstances
    /\ intuitaPanel' = getInstance(intuitaPanel)
    /\ pc' = "getInstance"
    /\ UNCHANGED <<ViewFrame, diagnosticCollection, workspaceState, treeView, applySelected>>

\* the webview panel is closed, by the user or by the timeout of render
DisposePanel(panel) ==
    /\ panel \in intuitaPanel.panels
    /\ ~panel.disposed
    /\ intuitaPanel' =
           [intuitaPanel EXCEPT
              !.panels = (@ \ {panel}) \cup {[panel EXCEPT !.disposed = TRUE]}]
    /\ pc' = "dispose"
    /\ UNCHANGED <<ViewFrame, diagnosticCollection, workspaceState, treeView, applySelected>>

IntuitaPanelNext ==
    \/ GetInstance
    \/ \E panel \in intuitaPanel.panels : DisposePanel(panel)

SpecIntuitaPanel == IntuitaPanelInit /\ [][IntuitaPanelNext]_vars

\* C35: at most one panel has been created and every call of getInstance has
\* returned the same instance
C35_Singleton ==
    /\ Cardinality(intuitaPanel.panels) <= 1
    /\ \A i, k \in 1..Len(intuitaPanel.returned) :
           intuitaPanel.returned[i] = intuitaPanel.returned[k]

(***************************************************************************)
(* The command intuita.sourceControl.saveStagedJobsToTheFileSystem and the *)
(* store flag applySelectedInProgress.                                     *)
(***************************************************************************)
\* the invocations of the command in a run
MaxInvocations == 4

\* what an invocation is called with: an argument that is no case hash, the
\* hash of a case that is not selected, the selected case without an explorer
\* tree, the selected case with its tree
CommandArguments == {"invalid", "otherCase", "noTree", "selected"}

\* the command up to its await: the flag is set; finally clears it when the
\* invocation throws or returns, else the invocation awaits acceptJobs
invokeSaveStagedJobs(state, argument) ==
    IF argument = "selected"
    THEN [state EXCEPT
            !.applySelectedInProgress = TRUE,
            !.executing = @ \cup {state.invoked + 1},
            !.invoked = @ + 1]
    ELSE [state EXCEPT
            !.applySelectedInProgress = FALSE,
            !.invoked = @ + 1]

\* acceptJobs has resolved or rejected: the rest of the command and finally
finishSaveStagedJobs(state, invocation) ==
    [state EXCEPT
       !.applySelectedInProgress = FALSE,
       !.executing = @ \ {invocation}]

ApplySelectedInit ==
    /\ pc = "applySelected"
    /\ AdvisorIdle
    /\ StoresEmpty

SaveStagedJobs(argument) ==
    /\ applySelected.invoked < MaxInvocations
    /\ applySelected' = invokeSaveStagedJobs(applySelected, argument)
    /\ pc' = argument
    /\ UNCHANGED <<ViewFrame, diagnosticCollection, workspaceState, treeView, intuitaPanel>>

AcceptJobsSettles(invocation, resolved) ==
    /\ invocation \in applySelected.executing
    /\ applySelected' = finishSaveStagedJobs(applySelected, invocation)
    /\ pc' = IF resolved THEN "resolved" ELSE "rejected"
    /\ UNCHANGED <<ViewFrame, diagnosticCollection, workspaceState, treeView, intuitaPanel>>

ApplySelectedNext ==
    \/ \E argument \in CommandArguments : SaveStagedJobs(argument)
    \/ \E invocation \in applySelected.executing, resolved \in BOOLEAN :
           AcceptJobsSettles(invocation, resolved)

SpecApplySelected == ApplySelectedInit /\ [][ApplySelectedNext]_vars

\* C34: applySelectedInProgress is true exactly while an invocation of the
\* command is executing
C34_FlagWhileExecuting ==
    applySelected.applySelectedInProgress = (applySelected.executing # {})

(***************************************************************************)
(* TreeView of the codemod list: the queue of the dry runs.  The extension *)
(* starts an execution for every dry run posted to it and sends progress   *)
(* messages and a halt message for it; the hook useProgressBar keeps the   *)
(* progress of the last progress message and calls onHalt on a halt.       *)
(***************************************************************************)
\* the clicks on dry-run buttons in a run
MaxClicks == 3

DryRunHashes == {"x", "a", "b"}

\* vscode.postMessage of a dry run: the extension starts its execution
postDryRun(view, hash) ==
    [view EXCEPT !.posted = Append(@, hash), !.running = Append(@, hash)]

\* handleActionButtonClick of a dry-run action
handleActionButtonClick(view, hash) ==
    IF view.progress # <<>> \/ Len(view.executionStack) # 0
    THEN IF hash \in Elements(view.executionStack) THEN view
         ELSE [view EXCEPT !.executionStack = Append(@, hash)]
    ELSE postDryRun(view, hash)

\* onHalt: the first hash of the queue is taken off and posted
onHalt(view) ==
    IF Len(view.executionStack) = 0 THEN view
    ELSE postDryRun([view EXCEPT !.executionStack = Tail(@)], Head(view.executionStack))

\* a list without its element at a place
RemoveAt(list, place) == SubSeq(list, 1, place - 1) \o SubSeq(list, place + 1, Len(list))

TreeViewInit ==
    /\ pc = "treeView"
    /\ AdvisorIdle
    /\ StoresEmpty

ClickDryRun(hash) ==
    /\ treeView.clicks < MaxClicks
    /\ treeView' = [handleActionButtonClick(treeView, hash) EXCEPT !.clicks = @ + 1]
    /\ pc' = "handleActionButtonClick"
    /\ UNCHANGED <<ViewFrame, diagnosticCollection, workspaceState, applySelected, intuitaPanel>>

\* a progress message of an execution that has started and not halted
ProgressMessage(place) ==
    /\ place \in 1..Len(treeView.running)
    /\ treeView.progress # <<treeView.running[place]>>
    /\ treeView' = [treeView EXCEPT !.progress = <<treeView.running[place]>>]
    /\ pc' = "progress"
    /\ UNCHANGED <<ViewFrame, diagnosticCollection, workspaceState, applySelected, intuitaPanel>>

\* the halt message of an execution: onHalt is called and the progress is reset
HaltMessage(place) ==
    /\ place \in 1..Len(treeView.running)
    /\ treeView' =
           [onHalt([treeView EXCEPT !.running = RemoveAt(@, place)]) EXCEPT
              !.progress = <<>>,
              !.halts = @ + 1]
    /\ pc' = "onHalt"
    /\ UNCHANGED <<ViewFrame, diagnosticCollection, workspaceState, applySelected, intuitaPanel>>

TreeViewNext ==
    \/ \E hash \in DryRunHashes : ClickDryRun(hash)
    \/ \E place \in 1..Len(treeView.running) : ProgressMessage(place)
    \/ \E place \in 1..Len(treeView.running) : HaltMessage(place)

SpecTreeView == TreeViewInit /\ [][TreeViewNext]_vars

\* no hash is in the queue twice, and every halt posts at most one dry run
QueueDiscipline ==
    /\ \A i, k \in 1..Len(treeView.executionStack) :
           treeView.executionStack[i] = treeView.executionStack[k] => i = k
    /\ [][pc' = "onHalt" => Len(treeView'.posted) <= Len(treeView.posted) + 1]_vars

\* C33: a dry run requested while an execution has started and not halted, or
\* while the queue is not empty, is not posted
C33_QueuedWhileRunning ==
    [][(pc' = "handleActionButtonClick"
        /\ (Len(treeView.running) # 0 \/ Len(treeView.executionStack) # 0))
       => treeView'.posted = treeView.posted]_vars

====
